---- MODULE Spec2Model ----
(***************************************************************************)
(* Client-side session, notification and request-orchestration layer of    *)
(* the finance dashboard (Vue 3 + pinia).  JavaScript runs handlers to     *)
(* completion on one event loop: every action below is one handler (a user  *)
(* event, a timer callback, or the continuation of an awaited request).    *)
(***************************************************************************)
EXTENDS Integers, Sequences, FiniteSets, TLC

(***************************************************************************)
(* JavaScript values.  A value is a record tagged with its type, so that   *)
(* '' / 0 / null / undefined, and 7 / "7", stay distinct as they are under  *)
(* === in the source.                                                      *)
(***************************************************************************)
Null == [k |-> "null"]
Undefined == [k |-> "undefined"]
Str(s) == [k |-> "string", s |-> s]
Num(n) == [k |-> "number", n |-> n]
Obj(id, username) == [k |-> "object", id |-> id, username |-> username]

\* ToBoolean: what `if (v)` and `v || w` test.
Truthy(v) ==
    CASE v.k = "null" -> FALSE
      [] v.k = "undefined" -> FALSE
      [] v.k = "string" -> v.s # ""
      [] v.k = "number" -> v.n # 0
      [] v.k = "boolean" -> v.b
      [] v.k = "NaN" -> FALSE
      [] OTHER -> TRUE

\* a || b
Or(a, b) == IF Truthy(a) THEN a ELSE b

\* String(v), the conversion sessionStorage.setItem applies to its value.
ToStringJS(v) ==
    CASE v.k = "string" -> v.s
      [] v.k = "number" -> ToString(v.n)
      [] v.k = "null" -> "null"
      [] v.k = "undefined" -> "undefined"
      [] OTHER -> "[object Object]"

\* u?.id
OptId(u) ==
    IF u.k = "object" THEN u.id ELSE Undefined

(***************************************************************************)
(* JSON text of the values a user record is made of.  A member whose value  *)
(* is undefined is left out; a number prints as digits, a string in quotes. *)
(***************************************************************************)
JsonScalar(v) ==
    CASE v.k = "string" -> "\"" \o v.s \o "\""
      [] v.k = "number" -> ToString(v.n)
      [] OTHER -> "null"

JSONstringify(v) ==
    IF v.k = "object"
    THEN "{" \o (IF v.id.k = "undefined" THEN "" ELSE "\"id\":" \o JsonScalar(v.id) \o ",")
             \o "\"username\":" \o JsonScalar(v.username) \o "}"
    ELSE JsonScalar(v)

\* The identifiers and user names the backend issues in this model.
UserIds == {Num(0), Num(7), Str("7"), Str("abc"), Str(""), Undefined}
UserNames == {Str("bob")}
UserRecords == {Obj(i, n) : i \in UserIds, n \in UserNames}
JsonValues == UserRecords \cup {Null, Str(""), Num(0)}

\* JSON.parse of a text produced by JSON.stringify: the value that prints so.
JSONparse(text) ==
    CHOOSE v \in JsonValues : JSONstringify(v) = text

(***************************************************************************)
(* Auth store (pinia store 'auth').  A store value st holds the two refs    *)
(* and the session storage it writes through to.                           *)
(***************************************************************************)
EmptyStorage == [auth_token |-> Null, user_data |-> Null]

\* sessionStorage.getItem(key): the stored string, or null.
getItem(storage, key) == storage[key]

\* defineStore setup: hydrate both refs from session storage.
useAuthStore(storage) ==
    [token |-> Or(getItem(storage, "auth_token"), Null),
     logged_user |-> JSONparse(ToStringJS(Or(getItem(storage, "user_data"), Str("null")))),
     sessionStorage |-> storage]

isAuthenticated(st) == st.token # Null

getToken(st) == st.token

setToken(st, new_token) ==
    [st EXCEPT !.token = new_token,
               !.sessionStorage.auth_token =
                   IF Truthy(new_token) THEN Str(ToStringJS(new_token)) ELSE Null]

setUserData(st, new_user_data) ==
    [st EXCEPT !.logged_user = new_user_data,
               !.sessionStorage.user_data =
                   IF Truthy(new_user_data) THEN Str(JSONstringify(new_user_data)) ELSE Null]

\* Mutant: the user half is forgotten.
removeAuthUser_TokenOnly(st) ==
    [st EXCEPT !.token = Null,
               !.sessionStorage.auth_token = Null]

\* Mutant: the token takes the user's place before the user is cleared.
removeAuthUser_Shifts(st) ==
    [st EXCEPT !.token = st.logged_user,
               !.logged_user = Null,
               !.sessionStorage = EmptyStorage]

removeAuthUser(st) ==
    [st EXCEPT !.token = Null,
               !.logged_user = Null,
               !.sessionStorage = EmptyStorage]

getUserData(st) == st.logged_user

getUserId(st) == Or(OptId(st.logged_user), Null)

(***************************************************************************)
(* Message store (pinia store 'message_store').  setTimeout callbacks all   *)
(* have the same delay, so they run in the order they were scheduled:       *)
(* timers is the queue of pending callbacks, each with the message its      *)
(* closure captured.  owner is a history variable, the place in the queue    *)
(* of the timer scheduled by the call that set the message now shown (0:     *)
(* none); the code compares texts only.                                    *)
(***************************************************************************)
FlashDelay == 5000

NewMessageStore == [flash_message |-> "", timers |-> <<>>, owner |-> 0]

\* Mutant: no timer is scheduled.
setFlashMessage_NoTimer(ms, message) ==
    [flash_message |-> message, timers |-> ms.timers, owner |-> 0]

setFlashMessage(ms, message) ==
    [flash_message |-> message,
     timers |-> Append(ms.timers, [message |-> message, delay |-> FlashDelay]),
     owner |-> Len(ms.timers) + 1]

\* Mutant: the message is left to the pending timers when there are any.
clearFlashMessage_UnlessPending(ms) ==
    IF ms.timers = <<>> THEN [ms EXCEPT !.flash_message = "", !.owner = 0] ELSE ms

clearFlashMessage(ms) ==
    [ms EXCEPT !.flash_message = "", !.owner = 0]

getFlashMessage(ms) == ms.flash_message

\* The callback of the oldest pending timer.
TimerCallback(ms) ==
    LET t == Head(ms.timers)
    IN  IF ms.flash_message = t.message
        THEN [ms EXCEPT !.flash_message = "", !.owner = 0, !.timers = Tail(ms.timers)]
        ELSE [ms EXCEPT !.timers = Tail(ms.timers),
                        !.owner = IF @ > 0 THEN @ - 1 ELSE 0]


(***************************************************************************)
(* State.                                                                  *)
(***************************************************************************)
VARIABLES
    token,           \* auth store: ref token
    logged_user,     \* auth store: ref logged_user
    sessionStorage,  \* the browser's session storage (auth_token, user_data)
    flash_message,   \* message store: ref flash_message
    timers,          \* pending setTimeout callbacks of setFlashMessage
    owner,           \* history: the timer of the call that set the message shown
    callLog,         \* history: the calls a test driver made on the message store
    route,           \* router: the current path
    view,            \* the component shown under /dashboard
    isLoading,       \* login / signup form: ref isLoading
    watchlist,       \* dashboard view: ref watchlist
    watchlistLoading, \* dashboard view: ref watchlistLoading
    watchlistError,  \* dashboard view: ref watchlistError
    monteLoading,    \* watchlist view: ref monteLoading
    monteError,      \* watchlist view: ref monteError
    monteCarloData,  \* watchlist view: ref monteCarloData
    showMonteCarloModal, \* watchlist view: ref showMonteCarloModal
    analysisResults, \* dashboard / search view: ref analysisResults
    analysisNews,    \* dashboard / search view: ref analysisNews
    analysisLoading, \* dashboard view: ref analysisLoading; search view: ref loading
    analysisError,   \* dashboard view: ref analysisError; search view: ref error
    predictedData,   \* search view: ref predictedData
    predictLoading,  \* search view: ref predictLoading
    predictError,    \* search view: ref predictError
    showPredictModal, \* search view: ref showPredictModal
    requests,        \* HTTP requests in flight, each with the closure awaiting it
    ops,             \* number of user actions so far
    event            \* history: the handler that ran last, with what it observed

authVars == <<token, logged_user, sessionStorage>>
msgVars == <<flash_message, timers, owner>>
appVars == <<route, view, isLoading, watchlist, watchlistLoading, watchlistError,
            monteLoading, monteError, monteCarloData, showMonteCarloModal,
            analysisResults, analysisNews, analysisLoading, analysisError,
            predictedData, predictLoading, predictError, showPredictModal,
            requests, ops>>
vars == <<token, logged_user, sessionStorage, flash_message, timers, owner,
          callLog, route, view, isLoading, watchlist, watchlistLoading, watchlistError,
          monteLoading, monteError, monteCarloData, showMonteCarloModal,
          analysisResults, analysisNews, analysisLoading, analysisError,
          predictedData, predictLoading, predictError, showPredictModal,
          requests, ops, event>>

\* The stores as the values the operators above work on.
St == [token |-> token, logged_user |-> logged_user, sessionStorage |-> sessionStorage]
Ms == [flash_message |-> flash_message, timers |-> timers, owner |-> owner]

SetSt(st) ==
    /\ token' = st.token
    /\ logged_user' = st.logged_user
    /\ sessionStorage' = st.sessionStorage

SetMs(ms) ==
    /\ flash_message' = ms.flash_message
    /\ timers' = ms.timers
    /\ owner' = ms.owner

NoEvent == [op |-> "none"]

\* A fresh page: empty session storage, both stores just created.
InitStores ==
    /\ sessionStorage = EmptyStorage
    /\ token = useAuthStore(EmptyStorage).token
    /\ logged_user = useAuthStore(EmptyStorage).logged_user
    /\ flash_message = NewMessageStore.flash_message
    /\ timers = NewMessageStore.timers
    /\ owner = NewMessageStore.owner

InitApp ==
    /\ isLoading = FALSE
    /\ watchlist = <<>>
    /\ watchlistLoading = FALSE
    /\ watchlistError = Null
    /\ monteLoading = FALSE
    /\ monteError = Null
    /\ monteCarloData = Null
    /\ showMonteCarloModal = FALSE
    /\ analysisResults = Null
    /\ analysisNews = <<>>
    /\ analysisLoading = FALSE
    /\ analysisError = Null
    /\ predictedData = Null
    /\ predictLoading = FALSE
    /\ predictError = Null
    /\ showPredictModal = FALSE
    /\ requests = {}
    /\ ops = 0

(***************************************************************************)
(* MsgSpec: the message store driven through its public API, with the      *)
(* timer callbacks running at any later moment, oldest first.              *)
(***************************************************************************)
MaxCalls == 4
Messages == {"", "A", "B"}

CallSetFlashMessage(m) ==
    /\ Len(callLog) < MaxCalls
    /\ SetMs(setFlashMessage(Ms, m))
    /\ callLog' = Append(callLog, [op |-> "setFlashMessage", message |-> m])
    /\ event' = [op |-> "setFlashMessage", message |-> m]
    /\ UNCHANGED <<authVars, appVars>>

CallClearFlashMessage ==
    /\ Len(callLog) < MaxCalls
    /\ SetMs(clearFlashMessage(Ms))
    /\ callLog' = Append(callLog, [op |-> "clearFlashMessage", message |-> ""])
    /\ event' = [op |-> "clearFlashMessage"]
    /\ UNCHANGED <<authVars, appVars>>

\* History: the place in callLog of the call whose timer is the oldest pending one.
\* Timers fire in the order of the calls, so it is the n-th setFlashMessage call,
\* n the number of such calls less the timers that follow it in the queue.
SetCalls(log) == {i \in 1..Len(log) : log[i].op = "setFlashMessage"}
HeadCall ==
    CHOOSE i \in SetCalls(callLog) :
        Cardinality({j \in SetCalls(callLog) : j >= i}) = Len(timers)

\* The oldest pending timer fires.  own: the message shown was set by the call
\* that scheduled this timer.
TimerFires ==
    /\ timers # <<>>
    /\ SetMs(TimerCallback(Ms))
    /\ event' = [op |-> "timer", call |-> HeadCall, message |-> Head(timers).message,
                 shown |-> flash_message, own |-> (owner = 1)]
    /\ UNCHANGED <<authVars, callLog, appVars>>

MsgInit ==
    /\ InitStores
    /\ InitApp
    /\ route = "/"
    /\ view = "dashboard"
    /\ callLog = <<>>
    /\ event = NoEvent

MsgNext ==
    \/ \E m \in Messages : CallSetFlashMessage(m)
    \/ CallClearFlashMessage
    \/ TimerFires

MsgSpec == MsgInit /\ [][MsgNext]_vars

\* The event loop runs every callback whose delay has passed: a pending timer
\* does fire.
MsgLiveSpec == MsgInit /\ [][MsgNext]_vars /\ WF_vars(TimerFires)

(***************************************************************************)
(* StoreSpec: the auth store driven through its public API, with page      *)
(* reloads that create the store again from session storage.               *)
(***************************************************************************)
TokenArgs == {Null, Undefined, Str(""), Str("t1"), Str("t2")}
UserArgs == UserRecords \cup {Null, Undefined, Str("")}

\* What a caller can read from the store.
Observed(st) ==
    [getToken |-> getToken(st), getUserData |-> getUserData(st),
     getUserId |-> getUserId(st), isAuthenticated |-> isAuthenticated(st)]

CallSetToken(t) ==
    /\ SetSt(setToken(St, t))
    /\ event' = [op |-> "setToken", arg |-> t]
    /\ UNCHANGED <<msgVars, callLog, appVars>>

CallSetUserData(u) ==
    /\ SetSt(setUserData(St, u))
    /\ event' = [op |-> "setUserData", arg |-> u]
    /\ UNCHANGED <<msgVars, callLog, appVars>>

CallRemoveAuthUser ==
    /\ SetSt(removeAuthUser(St))
    /\ event' = [op |-> "removeAuthUser", before |-> Observed(St),
                 store |-> St, after |-> event.op,
                 first |-> IF event.op = "removeAuthUser" THEN event.before
                                                          ELSE Observed(St)]
    /\ UNCHANGED <<msgVars, callLog, appVars>>

\* Page reload: the store is set up again from what session storage holds.
Reload ==
    /\ SetSt(useAuthStore(sessionStorage))
    /\ event' = [op |-> "reload", before |-> Observed(St)]
    /\ UNCHANGED <<msgVars, callLog, appVars>>

StoreInit ==
    /\ InitStores
    /\ InitApp
    /\ route = "/"
    /\ view = "dashboard"
    /\ callLog = <<>>
    /\ event = NoEvent

StoreNext ==
    \/ \E t \in TokenArgs : CallSetToken(t)
    \/ \E u \in UserArgs : CallSetUserData(u)
    \/ CallRemoveAuthUser
    \/ Reload

StoreSpec == StoreInit /\ [][StoreNext]_vars

(***************************************************************************)
(* AppSpec: the views, the navbar, the router and the requests between     *)
(* them and the backend.  The backend is not modelled: a request in flight can be       *)
(* answered by any response of its endpoint's set, or fail in transport.   *)
(***************************************************************************)
MaxOps == 2

Arr(items) == [k |-> "array", items |-> items]
Bool(b) == [k |-> "boolean", b |-> b]
Item(id, ticker) == [id |-> id, ticker |-> ticker]

\* A JSON object body; a member that is not sent reads as undefined.
JsonBody ==
    [kind |-> "json", message |-> Undefined, error |-> Undefined, token |-> Undefined,
     user |-> Undefined, has_watchlist_records |-> Undefined, watchlist |-> Undefined,
     stocks |-> Undefined, expected_return_percent |-> Undefined,
     volatility_percent |-> Undefined, worst_5_percent_percent |-> Undefined,
     conclusion |-> Undefined, analysis |-> Undefined, news_headlines |-> Undefined,
     day_7 |-> Undefined]
\* data.analysis of the analyze response: the fields of this model are ticker,
\* last_price and summary.
Analysis(ticker, last_price, summary) ==
    [k |-> "object", ticker |-> ticker, last_price |-> last_price, summary |-> summary]
AnalysisBodies == {Analysis(Str("TCS"), Str("3500.5"), Str("IT services")),
                   Analysis(Str("TCS"), Undefined, Undefined)}
\* A body that is no JSON (an HTML error page).
HtmlBody == [JsonBody EXCEPT !.kind = "html"]

Response(status, body) == [net |-> TRUE, status |-> status, body |-> body]
\* fetch rejects: the request never completed.
NetworkError == [net |-> FALSE, status |-> 0, body |-> HtmlBody]
\* response.ok
Ok(resp) == resp.status >= 200 /\ resp.status <= 299

\* err.message of the TypeError fetch rejects with, and of the SyntaxError
\* response.json() / JSON.parse throw on a body that is no JSON.
FailedToFetch == "Failed to fetch"
JsonSyntaxError == "Unexpected token '<', \"<!doctype \"... is not valid JSON"

\* new Error(v).message
ErrorMessage(v) == IF v.k = "undefined" THEN "" ELSE ToStringJS(v)
\* message || fallback, on texts
OrText(message, fallback) == IF message # "" THEN message ELSE fallback

\* ticker.toUpperCase(), on the tickers of this model.
Tickers == {"TCS", "tcs"}
toUpperCase(ticker) ==
    CASE ticker = "tcs" -> "TCS"
      [] ticker = "infy" -> "INFY"
      [] OTHER -> ticker

\* The watchlists the backend returns: tickers as the client sent them (upper case).
WatchlistItems == {Item(1, "TCS"), Item(2, "INFY")}
WatchlistBodies == {<<>>, <<Item(1, "TCS")>>, <<Item(1, "TCS"), Item(2, "INFY")>>}

LoginUsers == {Obj(Num(7), Str("bob")), Obj(Num(0), Str("bob")), Obj(Str("abc"), Str("bob"))}

\* The responses of each endpoint in this model.
Responses(kind) ==
    CASE kind = "login" ->
            {Response(200, [JsonBody EXCEPT !.token = Str("t1"), !.user = u]) : u \in LoginUsers}
            \cup {Response(200, JsonBody),
                  Response(401, [JsonBody EXCEPT !.message = Str("Invalid credentials")]),
                  Response(500, HtmlBody), NetworkError}
      [] kind = "has_watchlist" ->
            {Response(200, [JsonBody EXCEPT !.has_watchlist_records = Bool(TRUE)]),
             Response(200, [JsonBody EXCEPT !.has_watchlist_records = Bool(FALSE)]),
             Response(401, [JsonBody EXCEPT !.message = Str("Token expired")]),
             Response(401, HtmlBody),
             Response(500, [JsonBody EXCEPT !.error = Str("Database error")]),
             NetworkError}
      [] kind = "watchlist" ->
            {Response(200, [JsonBody EXCEPT !.watchlist = Arr(l)]) : l \in WatchlistBodies}
            \cup {Response(401, [JsonBody EXCEPT !.message = Str("Token expired")]),
                  Response(500, HtmlBody), NetworkError}
      [] kind = "add" ->
            {Response(201, [JsonBody EXCEPT !.message = Str("Added")]),
             Response(401, [JsonBody EXCEPT !.message = Str("Token expired")]),
             Response(500, HtmlBody), NetworkError}
      [] kind = "delete" ->
            {Response(200, [JsonBody EXCEPT !.message = Str("Deleted")]),
             Response(401, [JsonBody EXCEPT !.error = Str("Token expired")]),
             Response(500, HtmlBody), NetworkError}
      [] kind = "logout" ->
            {Response(200, [JsonBody EXCEPT !.message = Str("Logged out")]),
             Response(401, [JsonBody EXCEPT !.message = Str("Token expired")]),
             Response(404, HtmlBody), NetworkError}
      [] kind = "montecarlo" ->
            {Response(200, [JsonBody EXCEPT !.expected_return_percent = Num(12),
                                            !.volatility_percent = Num(5),
                                            !.worst_5_percent_percent = Num(3),
                                            !.conclusion = Str("Moderate risk")]),
             Response(200, JsonBody),
             Response(200, [JsonBody EXCEPT !.error = Str("No data for the portfolio")]),
             Response(401, [JsonBody EXCEPT !.message = Str("Token expired")]),
             Response(500, HtmlBody), NetworkError}
      [] kind = "analyze" ->
            {Response(200, [JsonBody EXCEPT !.analysis = a, !.news_headlines = Arr(n)]) :
                 a \in AnalysisBodies, n \in {<<>>, <<"Results out">>}}
            \cup {Response(200, JsonBody),
                  Response(200, HtmlBody),
                  Response(404, [JsonBody EXCEPT !.message = Str("Ticker not found")]),
                  Response(404, HtmlBody), NetworkError}
      [] kind = "predict" ->
            {Response(200, [JsonBody EXCEPT !.day_7 = Num(110)]),
             Response(500, [JsonBody EXCEPT !.message = Str("Not enough data")]),
             Response(404, HtmlBody), NetworkError}
      [] kind = "signup" ->
            {Response(201, [JsonBody EXCEPT !.message = Str("User created")]),
             Response(401, [JsonBody EXCEPT !.message = Str("Unauthorized")]),
             Response(400, [JsonBody EXCEPT !.error = Str("Username taken")]),
             NetworkError}

(***************************************************************************)
(* The client state a handler works on, as one value.                      *)
(***************************************************************************)
World ==
    [st |-> St, ms |-> Ms, route |-> route, isLoading |-> isLoading,
     watchlist |-> watchlist, watchlistLoading |-> watchlistLoading,
     watchlistError |-> watchlistError, monteLoading |-> monteLoading,
     monteError |-> monteError, monteCarloData |-> monteCarloData,
     showMonteCarloModal |-> showMonteCarloModal,
     analysisResults |-> analysisResults, analysisNews |-> analysisNews,
     analysisLoading |-> analysisLoading, analysisError |-> analysisError,
     predictedData |-> predictedData, predictLoading |-> predictLoading,
     predictError |-> predictError, showPredictModal |-> showPredictModal,
     requests |-> requests]

Apply(w) ==
    /\ SetSt(w.st)
    /\ SetMs(w.ms)
    /\ route' = w.route
    /\ isLoading' = w.isLoading
    /\ watchlist' = w.watchlist
    /\ watchlistLoading' = w.watchlistLoading
    /\ watchlistError' = w.watchlistError
    /\ monteLoading' = w.monteLoading
    /\ monteError' = w.monteError
    /\ monteCarloData' = w.monteCarloData
    /\ showMonteCarloModal' = w.showMonteCarloModal
    /\ analysisResults' = w.analysisResults
    /\ analysisNews' = w.analysisNews
    /\ analysisLoading' = w.analysisLoading
    /\ analysisError' = w.analysisError
    /\ predictedData' = w.predictedData
    /\ predictLoading' = w.predictLoading
    /\ predictError' = w.predictError
    /\ showPredictModal' = w.showPredictModal
    /\ requests' = w.requests

\* messageStore.setFlashMessage(message) from a handler.
Flash(w, message) == [w EXCEPT !.ms = setFlashMessage(@, message)]

\* A request and the closure awaiting it.  live: the component instance that
\* sent it is still mounted (the refs its continuation writes are the ones shown).
\* before, clean: history, the watchlist when the operation was triggered and
\* whether no other watchlist operation has touched the list since.
\* prior: history, the result the operation showed when it was triggered.
\* view: the view under /dashboard whose function sent it (its closure awaits it).
NewRequest(kind, comp) ==
    [id |-> 0, kind |-> kind, comp |-> comp, view |-> view, live |-> TRUE, userId |-> Null,
     itemId |-> 0, ticker |-> "", originalWatchlist |-> <<>>, stocks |-> <<>>,
     before |-> <<>>, clean |-> TRUE, session |-> Null, prior |-> Null]

\* fetch(...) / axios.post(...): the request leaves, the handler awaits it.
\* session: history, the token the request was sent under.
\* id: history, a number no other request in flight has.
FreeId(reqs) == CHOOSE n \in 1..(Cardinality(reqs) + 1) :
                    /\ \A r \in reqs : r.id # n
                    /\ \A k \in 1..(n - 1) : \E r \in reqs : r.id = k
Send(w, req) ==
    [w EXCEPT !.requests = @ \cup {[req EXCEPT !.id = FreeId(w.requests),
                                               !.session = getToken(w.st)]}]

(***************************************************************************)
(* Router.  The routes table maps a path to its component; matching is     *)
(* case-insensitive (vue-router's default), so '/Dashboard' shows the       *)
(* dashboard.                                                              *)
(***************************************************************************)
Component(path) ==
    CASE path = "/" -> "home"
      [] path = "/login" -> "login"
      [] path = "/signup" -> "signup"
      [] path \in {"/dashboard", "/Dashboard"} -> "dashboard"

\* A component is unmounted: its refs are gone, its pending continuations
\* keep running on refs nobody shows.
Unmount(w, comp) ==
    [w EXCEPT !.requests = {IF r.comp = comp THEN [r EXCEPT !.live = FALSE] ELSE r : r \in @},
              !.isLoading = IF comp \in {"login", "signup"} THEN FALSE ELSE @,
              !.watchlist = IF comp = "dashboard" THEN <<>> ELSE @,
              !.watchlistLoading = IF comp = "dashboard" THEN FALSE ELSE @,
              !.watchlistError = IF comp = "dashboard" THEN Null ELSE @,
              !.monteLoading = IF comp = "dashboard" THEN FALSE ELSE @,
              !.monteError = IF comp = "dashboard" THEN Null ELSE @,
              !.monteCarloData = IF comp = "dashboard" THEN Null ELSE @,
              !.showMonteCarloModal = IF comp = "dashboard" THEN FALSE ELSE @,
              !.analysisResults = IF comp = "dashboard" THEN Null ELSE @,
              !.analysisNews = IF comp = "dashboard" THEN <<>> ELSE @,
              !.analysisLoading = IF comp = "dashboard" THEN FALSE ELSE @,
              !.analysisError = IF comp = "dashboard" THEN Null ELSE @,
              !.predictedData = IF comp = "dashboard" THEN Null ELSE @,
              !.predictLoading = IF comp = "dashboard" THEN FALSE ELSE @,
              !.predictError = IF comp = "dashboard" THEN Null ELSE @,
              !.showPredictModal = IF comp = "dashboard" THEN FALSE ELSE @]

\* The synchronous part of fetchWatchlist() of the view v under /dashboard.
\* live: whether the calling instance is still mounted.
fetchWatchlistIn(v, w, live) ==
    LET userId == getUserId(w.st)
        has == [NewRequest("has_watchlist", "dashboard") EXCEPT
                   !.userId = userId, !.live = live, !.view = v]
        get == [NewRequest("watchlist", "dashboard") EXCEPT
                   !.userId = userId, !.live = live, !.view = v]
    IN  CASE v = "dashboard" ->
                IF ~Truthy(userId)
                THEN IF live THEN [w EXCEPT !.watchlistError = Str("User not authenticated.")]
                             ELSE w
                ELSE Send(IF live THEN [w EXCEPT !.watchlistLoading = TRUE,
                                                 !.watchlistError = Null]
                                  ELSE w, has)
          [] v = "search" ->
                IF ~Truthy(userId) THEN w ELSE Send(w, get)
          [] v = "watchlist" ->
                IF ~Truthy(userId)
                THEN w
                ELSE Send(IF live THEN [w EXCEPT !.watchlistLoading = TRUE,
                                                 !.watchlistError = Null]
                                  ELSE w, get)
          [] v = "portfolio" -> w

\* fetchWatchlist() of the view shown.
fetchWatchlist(w, live) == fetchWatchlistIn(view, w, live)

\* The view a newly created dashboard shows: DashboardView itself, or, where
\* /dashboard is the tabbed dashboard, the tab of const activeTab = ref('search').
FirstView == IF view = "dashboard" THEN "dashboard" ELSE "search"

\* Setup of a component; the dashboard views load the watchlist when a user id is there.
Mount(w, comp) ==
    IF comp = "dashboard" /\ Truthy(getUserId(w.st))
    THEN fetchWatchlistIn(FirstView, w, TRUE)
    ELSE w

\* router.push(path).  A path that resolves to the route record already shown is a
\* duplicated navigation: the router drops it and the route keeps its text.
Push(w, path) ==
    IF Component(path) = Component(w.route)
    THEN w
    ELSE Mount(Unmount([w EXCEPT !.route = path], Component(w.route)), Component(path))

\* watch(userId, ...) of the dashboard views: after a handler changed the user id
\* while the view is mounted, the watchlist is fetched for the new id.
WatchUserId(old, w) ==
    IF /\ Component(old.route) = "dashboard"
       /\ Component(w.route) = "dashboard"
       /\ view \in {"dashboard", "watchlist"}
       /\ getUserId(w.st) # getUserId(old.st)
       /\ Truthy(getUserId(w.st))
    THEN fetchWatchlist(w, TRUE)
    ELSE w

\* The view under /dashboard once a handler has run: the one shown before while the
\* dashboard stays mounted, the first one of a dashboard created by the handler (and,
\* while no dashboard is mounted, the one the next dashboard will start with).
ViewAfter ==
    IF Component(route) = "dashboard" /\ Component(route') = "dashboard"
    THEN view
    ELSE FirstView

\* The request r is answered: it is no longer in flight.
Settle(w, r) == [w EXCEPT !.requests = @ \ {r}]

\* The instance awaiting r is the one shown: it was when the handler started, and
\* the handler has not navigated away since.
LiveNow(w, r) == r.live /\ Component(w.route) = r.comp

\* History: another watchlist operation has acted while these deletes are pending.
Touch(w, except) ==
    [w EXCEPT !.requests = {IF q.kind = "delete" /\ q.id # except
                            THEN [q EXCEPT !.clean = FALSE] ELSE q : q \in @}]

(***************************************************************************)
(* The tabs of the tabbed dashboard.                                       *)
(***************************************************************************)
\* PortfolioView is not imported, its tab shows no view.
Tabs == {"search", "watchlist", "portfolio"}

\* @click="activeTab = tab.key": v-if removes the view shown (its pending
\* continuations keep running) and sets up the view of the tab, which loads the
\* watchlist when a user id is there.
selectTab(w, tab) ==
    LET w1 == Unmount(w, "dashboard")
    IN  IF Truthy(getUserId(w1.st)) THEN fetchWatchlistIn(tab, w1, TRUE) ELSE w1

SelectTab(tab) ==
    /\ ops < MaxOps
    /\ Component(route) = "dashboard"
    /\ view \in Tabs
    /\ tab # view
    /\ Apply(selectTab(World, tab))
    /\ view' = tab
    /\ ops' = ops + 1
    /\ event' = [op |-> "selectTab", tab |-> tab]
    /\ UNCHANGED callLog

(***************************************************************************)
(* Navigation links of the navbar and of the forms.                        *)
(***************************************************************************)
\* The navbar shows Login and Sign Up to a visitor and Dashboard to a user; the
\* login form links to /signup, the signup form to /login.
NavLinks ==
    (IF isAuthenticated(St) THEN {"/dashboard"} ELSE {"/", "/login", "/signup"})
    \cup (IF Component(route) = "login" THEN {"/signup"} ELSE {})
    \cup (IF Component(route) = "signup" THEN {"/login"} ELSE {})

NavLink(path) ==
    /\ ops < MaxOps
    /\ path \in NavLinks
    /\ Component(path) # Component(route)
    /\ Apply(Push(World, path))
    /\ ops' = ops + 1
    /\ event' = [op |-> "navigate", path |-> path]
    /\ view' = ViewAfter
    /\ UNCHANGED callLog

(***************************************************************************)
(* LoginView.login                                                         *)
(***************************************************************************)
login(w) ==
    Send(Flash([w EXCEPT !.isLoading = TRUE], ""), NewRequest("login", "login"))

\* The continuation of login() after its awaits.
loginResponse(w, r, resp) ==
    LET data == resp.body
        done(x) == IF LiveNow(x, r) THEN [x EXCEPT !.isLoading = FALSE] ELSE x
    IN  IF ~resp.net
        THEN done(Flash(w, OrText(FailedToFetch, "Login failed.")))
        ELSE IF data.kind # "json"
        THEN done(Flash(w, OrText(JsonSyntaxError, "Login failed.")))
        ELSE IF ~Ok(resp)
        THEN done(Flash(w, OrText(ErrorMessage(Or(data.message, Str("Login failed"))),
                                  "Login failed.")))
        ELSE IF Truthy(data.token) /\ Truthy(data.user)
        THEN LET w1 == [w EXCEPT !.st = setUserData(setToken(@, data.token), data.user)]
                 w2 == Push(Flash(w1, "Login successful!"), "/Dashboard")
             IN  done(WatchUserId(w, w2))
        ELSE done(Flash(w, "Unexpected server response."))

Login ==
    /\ ops < MaxOps
    /\ Component(route) = "login"
    /\ ~isLoading
    /\ Apply(login(World))
    /\ ops' = ops + 1
    /\ event' = [op |-> "login"]
    /\ view' = ViewAfter
    /\ UNCHANGED callLog

LoginResponse(r, resp) ==
    /\ r.kind = "login"
    /\ Apply(Touch(loginResponse(Settle(World, r), r, resp), 0))
    /\ event' = [op |-> "loginResponse", response |-> resp, request |-> r,
                 live |-> LiveNow(World, r)]
    /\ view' = ViewAfter
    /\ UNCHANGED <<callLog, ops>>

(***************************************************************************)
(* fetchWatchlist: the continuations of the three views.                   *)
(***************************************************************************)
\* Writes to the refs of the view, when the instance that awaits is the one shown.
SetWatchlist(w, r, list) == IF LiveNow(w, r) THEN [w EXCEPT !.watchlist = list] ELSE w
SetLoading(w, r, flag) == IF LiveNow(w, r) THEN [w EXCEPT !.watchlistLoading = flag] ELSE w
SetError(w, r, text) == IF LiveNow(w, r) THEN [w EXCEPT !.watchlistError = Str(text)] ELSE w

\* data.watchlist || []
WatchlistOf(data) == Or(data.watchlist, Arr(<<>>)).items

\* The 'session expired' handling of DashboardView.fetchWatchlist.
sessionExpired(w) ==
    Push([Flash(w, "Session expired. Please log in again.")
             EXCEPT !.st = removeAuthUser(@)], "/login")

\* Mutant: the full list is fetched whatever the flag says.
dashboardHasWatchlistResponse_IgnoresFlag(w, r, resp) ==
    LET data == resp.body
        failed(text) == SetLoading(SetError(w, r, OrText(text, "Failed to load watchlist.")),
                                   r, FALSE)
    IN  IF ~resp.net
        THEN failed(FailedToFetch)
        ELSE IF data.kind # "json"
        THEN failed(JsonSyntaxError)
        ELSE IF ~Ok(resp)
        THEN IF resp.status = 401
             THEN SetLoading(sessionExpired(w), r, FALSE)
             ELSE failed(ErrorMessage(Or(data.error, data.message)))
        ELSE Send(w, [NewRequest("watchlist", "dashboard") EXCEPT
                         !.userId = r.userId, !.live = r.live])

\* DashboardView.fetchWatchlist after the has_watchlist response.
dashboardHasWatchlistResponse(w, r, resp) ==
    LET data == resp.body
        failed(text) == SetLoading(SetError(w, r, OrText(text, "Failed to load watchlist.")),
                                   r, FALSE)
    IN  IF ~resp.net
        THEN failed(FailedToFetch)
        ELSE IF data.kind # "json"
        THEN failed(JsonSyntaxError)
        ELSE IF ~Ok(resp)
        THEN IF resp.status = 401
             THEN SetLoading(sessionExpired(w), r, FALSE)
             ELSE failed(ErrorMessage(Or(data.error, data.message)))
        ELSE IF ~Truthy(data.has_watchlist_records)
        THEN SetLoading(SetWatchlist(w, r, <<>>), r, FALSE)
        ELSE Send(w, [NewRequest("watchlist", "dashboard") EXCEPT
                         !.userId = r.userId, !.live = r.live])

\* DashboardView.fetchWatchlist after the watchlist response.
dashboardWatchlistResponse(w, r, resp) ==
    LET data == resp.body
        failed(text) == SetLoading(SetError(w, r, OrText(text, "Failed to load watchlist.")),
                                   r, FALSE)
    IN  IF ~resp.net
        THEN failed(FailedToFetch)
        ELSE IF data.kind # "json"
        THEN failed(JsonSyntaxError)
        ELSE IF ~Ok(resp)
        THEN failed(ErrorMessage(Or(data.error, data.message)))
        ELSE SetLoading(SetWatchlist(w, r, WatchlistOf(data)), r, FALSE)

\* SearchView.fetchWatchlist after the response: the body is read as text and
\* parsed leniently; the status is not looked at.
searchWatchlistResponse(w, r, resp) ==
    LET data == IF resp.body.kind = "json" THEN resp.body ELSE JsonBody
    IN  IF ~resp.net
        THEN w
        ELSE SetWatchlist(w, r, WatchlistOf(data))

\* WatchlistView.fetchWatchlist after the response.
watchlistViewResponse(w, r, resp) ==
    LET data == resp.body
        failed(text) == SetLoading(Flash(SetError(w, r, text), "Error: " \o text), r, FALSE)
    IN  IF ~resp.net
        THEN failed(FailedToFetch)
        ELSE IF ~Ok(resp)
        THEN failed("Failed to fetch watchlist")
        ELSE IF data.kind # "json"
        THEN failed(JsonSyntaxError)
        ELSE SetLoading(SetWatchlist(w, r, WatchlistOf(data)), r, FALSE)

fetchWatchlistResponse(w, r, resp) ==
    CASE r.kind = "has_watchlist" -> dashboardHasWatchlistResponse(w, r, resp)
      [] r.view = "dashboard" -> dashboardWatchlistResponse(w, r, resp)
      [] r.view = "search" -> searchWatchlistResponse(w, r, resp)
      [] r.view = "watchlist" -> watchlistViewResponse(w, r, resp)

\* A response to a request of fetchWatchlist arrives.
FetchWatchlistResponse(r, resp) ==
    /\ r.kind \in {"has_watchlist", "watchlist"}
    /\ Apply(Touch(fetchWatchlistResponse(Settle(World, r), r, resp), 0))
    /\ event' = [op |-> "fetchWatchlistResponse", request |-> r, response |-> resp,
                 live |-> LiveNow(World, r)]
    /\ view' = ViewAfter
    /\ UNCHANGED <<callLog, ops>>

(***************************************************************************)
(* addToWatchlist (DashboardView, SearchView)                              *)
(***************************************************************************)
\* Mutant: the ticker is compared as typed.
isTickerInWatchlist_AsTyped(list, ticker) ==
    \E i \in 1..Len(list) : list[i].ticker = ticker

\* watchlist.value.some(item => item.ticker === ticker.toUpperCase())
isTickerInWatchlist(list, ticker) ==
    \E i \in 1..Len(list) : list[i].ticker = toUpperCase(ticker)

\* isNaN(Number(userId)) on the ids of this model: a string that is no numeral.
IsNaNNumber(v) == v.k = "string" /\ v.s \notin {"", "7"}

\* The synchronous part of DashboardView.addToWatchlist(ticker).
dashboardAddToWatchlist(w, ticker) ==
    LET userId == getUserId(w.st)
    IN  IF ticker = "" \/ isTickerInWatchlist(w.watchlist, ticker)
        THEN w
        ELSE IF ~Truthy(userId) \/ IsNaNNumber(userId)
        THEN Flash(w, OrText("Invalid User ID: " \o ToStringJS(userId), "Failed to add item."))
        ELSE Send(w, [NewRequest("add", "dashboard") EXCEPT
                         !.ticker = ticker, !.userId = Str(ToStringJS(userId))])

\* The synchronous part of SearchView.addToWatchlist(ticker).
searchAddToWatchlist(w, ticker) ==
    LET userId == getUserId(w.st)
    IN  IF ~Truthy(userId)
        THEN Push(Flash(w, "Please log in to save watchlist."), "/login")
        ELSE IF isTickerInWatchlist(w.watchlist, ticker)
        THEN Flash(w, ticker \o " already in watchlist.")
        ELSE Send(w, [NewRequest("add", "dashboard") EXCEPT
                         !.ticker = ticker, !.userId = Str(ToStringJS(userId))])

addToWatchlist(w, ticker) ==
    IF view = "dashboard" THEN dashboardAddToWatchlist(w, ticker)
                          ELSE searchAddToWatchlist(w, ticker)

\* DashboardView.addToWatchlist after the POST response.
dashboardAddResponse(w, r, resp) ==
    LET data == resp.body
        tickerUpper == toUpperCase(r.ticker)
        failed(text) == Flash(w, OrText(text, "Failed to add item."))
    IN  IF ~resp.net
        THEN failed(FailedToFetch)
        ELSE IF data.kind # "json"
        THEN failed(JsonSyntaxError)
        ELSE IF ~Ok(resp)
        THEN failed(ErrorMessage(Or(data.message, Str("HTTP " \o ToString(resp.status)))))
        ELSE fetchWatchlistIn(r.view, Flash(w, tickerUpper \o " added to watchlist."),
                              LiveNow(w, r))

\* SearchView.addToWatchlist after the POST response.
searchAddResponse(w, r, resp) ==
    LET data == IF resp.body.kind = "json" THEN resp.body ELSE JsonBody
        failed(text) == Flash(w, OrText(text, "Failed to add to watchlist."))
    IN  IF ~resp.net
        THEN failed(FailedToFetch)
        ELSE IF ~Ok(resp) \/ resp.body.kind # "json"
        THEN failed(ErrorMessage(Or(data.message, Str("Failed to add."))))
        ELSE fetchWatchlistIn(r.view, Flash(w, r.ticker \o " added to watchlist."),
                              LiveNow(w, r))

addResponse(w, r, resp) ==
    IF r.view = "dashboard" THEN dashboardAddResponse(w, r, resp)
                          ELSE searchAddResponse(w, r, resp)

\* addToWatchlist(ticker) is called (the button is disabled while the ticker is in
\* the list; the function keeps its own check).
AddToWatchlist(ticker) ==
    /\ ops < MaxOps
    /\ Component(route) = "dashboard"
    /\ view \in {"dashboard", "search"}
    /\ Apply(Touch(addToWatchlist(World, ticker), 0))
    /\ ops' = ops + 1
    /\ event' = [op |-> "addToWatchlist", ticker |-> ticker, before |-> World]
    /\ view' = ViewAfter
    /\ UNCHANGED callLog

AddResponse(r, resp) ==
    /\ r.kind = "add"
    /\ Apply(Touch(addResponse(Settle(World, r), r, resp), 0))
    /\ event' = [op |-> "addResponse", request |-> r, response |-> resp]
    /\ view' = ViewAfter
    /\ UNCHANGED <<callLog, ops>>

(***************************************************************************)
(* deleteFromWatchlist (DashboardView, WatchlistView)                      *)
(***************************************************************************)
\* watchlist.value.filter(item => item.id !== itemId)
WithoutItem(list, itemId) == SelectSeq(list, LAMBDA item : item.id # itemId)

\* Mutant: the dashboard, too, waits for the response before it touches the list.
deleteFromWatchlist_Waits(w, itemId, itemTicker) ==
    LET req == [NewRequest("delete", "dashboard") EXCEPT
                   !.itemId = itemId, !.ticker = itemTicker, !.before = w.watchlist]
    IN  IF view = "dashboard"
        THEN Send(w, [req EXCEPT !.originalWatchlist = w.watchlist])
        ELSE Send(w, req)

\* The synchronous part of deleteFromWatchlist(itemId, itemTicker).
deleteFromWatchlist(w, itemId, itemTicker) ==
    LET req == [NewRequest("delete", "dashboard") EXCEPT
                   !.itemId = itemId, !.ticker = itemTicker, !.before = w.watchlist]
    IN  IF view = "dashboard"
        THEN Send([w EXCEPT !.watchlist = WithoutItem(@, itemId)],
                  [req EXCEPT !.originalWatchlist = w.watchlist])
        ELSE Send(w, req)

\* Mutant: the catch block forgets the rollback.
dashboardDeleteResponse_NoRollback(w, r, resp) ==
    IF resp.net /\ Ok(resp)
    THEN Flash(w, r.ticker \o " removed from watchlist.")
    ELSE Flash(w, "Failed to remove from watchlist.")

\* DashboardView.deleteFromWatchlist after the DELETE response.
dashboardDeleteResponse(w, r, resp) ==
    LET errData == resp.body
        failed(text) == Flash(SetWatchlist(w, r, r.originalWatchlist),
                              OrText(text, "Failed to remove from watchlist."))
    IN  IF ~resp.net
        THEN failed(FailedToFetch)
        ELSE IF Ok(resp)
        THEN Flash(w, r.ticker \o " removed from watchlist.")
        ELSE IF errData.kind # "json"
        THEN failed(JsonSyntaxError)
        ELSE failed(ErrorMessage(Or(errData.error, Str("HTTP " \o ToString(resp.status)))))

\* WatchlistView.deleteFromWatchlist after the DELETE response.
watchlistViewDeleteResponse(w, r, resp) ==
    IF ~resp.net
    THEN Flash(w, "Error: " \o FailedToFetch)
    ELSE IF ~Ok(resp)
    THEN Flash(w, "Error: " \o "Failed to delete " \o r.ticker)
    ELSE Flash(SetWatchlist(w, r, WithoutItem(w.watchlist, r.itemId)),
               "Removed " \o r.ticker \o " from watchlist")

deleteResponse(w, r, resp) ==
    IF r.view = "dashboard" THEN dashboardDeleteResponse(w, r, resp)
                          ELSE watchlistViewDeleteResponse(w, r, resp)

\* The delete button of a listed item is clicked (the list is rendered when the
\* view is neither loading nor showing an error).
DeleteFromWatchlist(i) ==
    /\ ops < MaxOps
    /\ Component(route) = "dashboard"
    /\ view \in {"dashboard", "watchlist"}
    /\ ~watchlistLoading
    /\ ~Truthy(watchlistError)
    /\ i \in 1..Len(watchlist)
    /\ Apply(Touch(deleteFromWatchlist(World, watchlist[i].id, watchlist[i].ticker), FreeId(requests)))
    /\ ops' = ops + 1
    /\ event' = [op |-> "deleteFromWatchlist", itemId |-> watchlist[i].id, before |-> World]
    /\ view' = ViewAfter
    /\ UNCHANGED callLog

DeleteResponse(r, resp) ==
    /\ r.kind = "delete"
    /\ Apply(Touch(deleteResponse(Settle(World, r), r, resp), 0))
    /\ event' = [op |-> "deleteResponse", request |-> r, response |-> resp,
                 live |-> LiveNow(World, r)]
    /\ view' = ViewAfter
    /\ UNCHANGED <<callLog, ops>>

(***************************************************************************)
(* Signup form and the axios interceptors of App.vue                       *)
(***************************************************************************)
\* /^[^\s@]+@[^\s@]+\.[^\s@]+$/ .test(email), email a sequence of characters.
emailRegexTest(email) ==
    \E at \in 1..Len(email) :
        /\ email[at] = "@"
        /\ at > 1
        /\ \A j \in 1..Len(email) : j # at => email[j] \notin {"@", " "}
        /\ \E dot \in (at + 2)..(Len(email) - 1) : email[dot] = "."

MinPasswordLength == 8

Form(username, email, password, confirm_password) ==
    [username |-> username, email |-> email, password |-> password,
     confirm_password |-> confirm_password]
GoodEmail == <<"a", "@", "b", ".", "c">>
Forms ==
    {Form("bob", GoodEmail, "longpassword", "longpassword"),
     Form("", GoodEmail, "longpassword", "longpassword"),
     Form("bob", GoodEmail, "longpassword", "otherpassword"),
     Form("bob", GoodEmail, "short", "short"),
     Form("bob", <<"a", "@", "b">>, "longpassword", "longpassword"),
     Form("bob", <<>>, "longpassword", "longpassword"),
     Form("bob", GoodEmail, "", "")}

\* Mutant: the length of the password is not looked at.
validateInput_AnyLength(form) ==
    IF form.username = "" \/ form.email = <<>> \/ form.password = ""
    THEN "All fields are required."
    ELSE IF form.password # form.confirm_password
    THEN "Passwords do not match."
    ELSE IF ~emailRegexTest(form.email)
    THEN "Enter a valid email address."
    ELSE ""

\* validateInput(): the message it flashes, "" when the input is valid.
validateInput(form) ==
    IF form.username = "" \/ form.email = <<>> \/ form.password = ""
    THEN "All fields are required."
    ELSE IF form.password # form.confirm_password
    THEN "Passwords do not match."
    ELSE IF Len(form.password) < MinPasswordLength
    THEN "Password must be at least 8 characters."
    ELSE IF ~emailRegexTest(form.email)
    THEN "Enter a valid email address."
    ELSE ""

\* onSubmit() up to the await of axios.post in registerUser.
onSubmit(w, form) ==
    IF validateInput(form) # ""
    THEN Flash(w, validateInput(form))
    ELSE Send(Flash([w EXCEPT !.isLoading = TRUE], ""), NewRequest("signup", "signup"))

\* Mutant: the error handler returns the error instead of rejecting.
responseInterceptor_Swallows(w, resp) ==
    [w |-> w, settled |-> "fulfilled", expired |-> FALSE]

\* axios.interceptors.response.use(res => res, err => ...): the world after the
\* handler and how the promise given to the caller settles.
responseInterceptor(w, resp) ==
    IF resp.net /\ Ok(resp)
    THEN [w |-> w, settled |-> "fulfilled", expired |-> FALSE]
    ELSE IF resp.net /\ resp.status = 401 /\ isAuthenticated(w.st)
    THEN [w |-> Push([Flash(w, "Session expired. Please log in again.")
                         EXCEPT !.st = removeAuthUser(@)], "/login"),
          settled |-> "rejected", expired |-> TRUE]
    ELSE [w |-> w, settled |-> "rejected", expired |-> FALSE]

\* registerUser() and onSubmit() after the axios promise settled.
signupSettled(w, r, resp, settled) ==
    LET data == IF resp.net /\ resp.body.kind = "json" THEN resp.body ELSE JsonBody
        done(x) == IF LiveNow(x, r) THEN [x EXCEPT !.isLoading = FALSE] ELSE x
    IN  IF settled = "fulfilled"
        THEN Push(Flash(done(w), ErrorMessage(Or(data.message, Str("Signup successful.")))),
                  "/login")
        ELSE Flash(done(w), ErrorMessage(Or(Or(data.message, data.error), Str("Signup failed."))))

signupResponse(w, r, resp) ==
    signupSettled(responseInterceptor(w, resp).w, r, resp, responseInterceptor(w, resp).settled)

OnSubmit(form) ==
    /\ ops < MaxOps
    /\ Component(route) = "signup"
    /\ ~isLoading
    /\ Apply(onSubmit(World, form))
    /\ ops' = ops + 1
    /\ event' = [op |-> "onSubmit", form |-> form,
                 sent |-> (onSubmit(World, form).requests # requests)]
    /\ view' = ViewAfter
    /\ UNCHANGED callLog

\* A response to the signup request arrives: the interceptor runs, then the caller.
SignupResponse(r, resp) ==
    /\ r.kind = "signup"
    /\ Apply(Touch(signupResponse(Settle(World, r), r, resp), 0))
    /\ event' = [op |-> "signupResponse", response |-> resp,
                 live |-> LiveNow(World, r),
                 before |-> Settle(World, r),
                 intercepted |-> responseInterceptor(Settle(World, r), resp)]
    /\ view' = ViewAfter
    /\ UNCHANGED <<callLog, ops>>

(***************************************************************************)
(* App.logout                                                              *)
(***************************************************************************)
\* logout() up to its await.  The request is sent by App, which stays mounted.
logout(w) == Send(w, NewRequest("logout", "app"))

\* Mutant: the local logout is done only when the backend accepted it.
logoutResponse_OnSuccess(w, r, resp) ==
    IF resp.net /\ Ok(resp)
    THEN Push(Flash([w EXCEPT !.st = removeAuthUser(@)], "You have been logged out."),
              "/login")
    ELSE w

\* Mutant: the local logout forgets the user record.
logoutResponse_KeepsUser(w, r, resp) ==
    Push(Flash([w EXCEPT !.st = removeAuthUser_TokenOnly(@)], "You have been logged out."),
         "/login")

\* logout() after its await: the finally block, whatever the outcome.
logoutResponse(w, r, resp) ==
    Push(Flash([w EXCEPT !.st = removeAuthUser(@)], "You have been logged out."),
         "/login")

\* The Logout button of the navbar, shown to a logged-in user.
Logout ==
    /\ ops < MaxOps
    /\ isAuthenticated(St)
    /\ Apply(logout(World))
    /\ ops' = ops + 1
    /\ event' = [op |-> "logout"]
    /\ view' = ViewAfter
    /\ UNCHANGED callLog

LogoutResponse(r, resp) ==
    /\ r.kind = "logout"
    /\ Apply(logoutResponse(Settle(World, r), r, resp))
    /\ event' = [op |-> "logoutResponse", request |-> r, response |-> resp]
    /\ view' = ViewAfter
    /\ UNCHANGED <<callLog, ops>>

(***************************************************************************)
(* WatchlistView.predictMonteCarlo                                         *)
(***************************************************************************)
\* a ?? b
Nullish(a, b) == IF a.k \in {"null", "undefined"} THEN b ELSE a

\* Number(v), on the values of this model.
NaN == [k |-> "NaN"]
NumberJS(v) ==
    CASE v.k = "number" -> v
      [] v.k = "null" -> Num(0)
      [] v.k = "string" /\ v.s = "" -> Num(0)
      [] v.k = "string" /\ v.s = "7" -> Num(7)
      [] OTHER -> NaN

\* watchlist.value.map(s => s.ticker)
TickersOf(list) == [i \in 1..Len(list) |-> list[i].ticker]

\* <button v-if="watchlist.length > 0" class="btn-montecarlo">
MonteCarloButton(w) == Len(w.watchlist) > 0

\* Mutant: the function does not look at the list.
predictMonteCarlo_Unguarded(w) ==
    Send([w EXCEPT !.monteLoading = TRUE, !.monteError = Null,
                   !.monteCarloData = Null, !.showMonteCarloModal = TRUE],
         [NewRequest("montecarlo", "dashboard") EXCEPT
                  !.stocks = TickersOf(w.watchlist),
                  !.prior = [results |-> w.monteCarloData, news |-> <<>>]])

\* predictMonteCarlo() up to its await.
predictMonteCarlo(w) ==
    IF Len(w.watchlist) = 0
    THEN w
    ELSE Send([w EXCEPT !.monteLoading = TRUE, !.monteError = Null,
                        !.monteCarloData = Null, !.showMonteCarloModal = TRUE],
              [NewRequest("montecarlo", "dashboard") EXCEPT
                  !.stocks = TickersOf(w.watchlist),
                  !.prior = [results |-> w.monteCarloData, news |-> <<>>]])

\* The object the handler builds from the response for the template.
MonteCarloData(data, stocks) ==
    [k |-> "object",
     stocks |-> IF Truthy(data.stocks) THEN data.stocks.items ELSE stocks,
     expected_return |-> NumberJS(Nullish(data.expected_return_percent, Num(0))),
     volatility |-> NumberJS(Nullish(data.volatility_percent, Num(0))),
     worst_5_percent |-> NumberJS(Nullish(data.worst_5_percent_percent, Num(0))),
     conclusion |-> Or(data.conclusion, Str("No conclusion"))]

\* predictMonteCarlo() after its awaits.
monteCarloResponse(w, r, resp) ==
    LET data == resp.body
        failed(text) ==
            IF LiveNow(w, r)
            THEN [w EXCEPT !.monteError = Str(OrText(text, "Monte Carlo simulation failed")),
                           !.monteLoading = FALSE]
            ELSE w
    IN  IF ~resp.net
        THEN failed(FailedToFetch)
        ELSE IF data.kind # "json"
        THEN failed(JsonSyntaxError)
        ELSE IF ~Ok(resp) \/ Truthy(data.error)
        THEN failed(ErrorMessage(Or(data.error, Str("Monte Carlo simulation failed"))))
        ELSE IF LiveNow(w, r)
        THEN [w EXCEPT !.monteCarloData = MonteCarloData(data, r.stocks),
                       !.monteLoading = FALSE]
        ELSE w

\* predictMonteCarlo() is called (the button is rendered while the list is not
\* empty; the function keeps its own check).
PredictMonteCarlo ==
    /\ ops < MaxOps
    /\ Component(route) = "dashboard"
    /\ view = "watchlist"
    /\ Apply(predictMonteCarlo(World))
    /\ ops' = ops + 1
    /\ event' = [op |-> "predictMonteCarlo", before |-> World,
                 button |-> MonteCarloButton(World)]
    /\ view' = ViewAfter
    /\ UNCHANGED callLog

MonteCarloResponse(r, resp) ==
    /\ r.kind = "montecarlo"
    /\ Apply(monteCarloResponse(Settle(World, r), r, resp))
    /\ event' = [op |-> "monteCarloResponse", request |-> r, response |-> resp,
                 live |-> LiveNow(World, r), before |-> World]
    /\ view' = ViewAfter
    /\ UNCHANGED <<callLog, ops>>

\* @click="showMonteCarloModal = false" (backdrop and Close button of the modal)
CloseMonteCarloModal ==
    /\ ops < MaxOps
    /\ Component(route) = "dashboard"
    /\ view = "watchlist"
    /\ showMonteCarloModal
    /\ Apply([World EXCEPT !.showMonteCarloModal = FALSE])
    /\ ops' = ops + 1
    /\ event' = [op |-> "closeMonteCarloModal"]
    /\ view' = ViewAfter
    /\ UNCHANGED callLog

(***************************************************************************)
(* Analysis (DashboardView.getAnalysis, SearchView.analyzeTicker) and       *)
(* SearchView.predictFuturePrice                                           *)
(***************************************************************************)
\* err.message of the TypeError of analysis.ticker when data.analysis is undefined,
\* and of ticker.toUpperCase() when the ticker is undefined.
UndefinedAnalysis == "Cannot read properties of undefined (reading 'ticker')"
UndefinedTicker == "Cannot read properties of undefined (reading 'toUpperCase')"
RouteNotFound == "Route Not Found or Internal Server Error. Check '/api/v1/analyze'."

\* The values of the text field when the form is submitted (v-model.trim).
AnalysisInputs == {"", "TCS", "tcs"}

\* Mutant: the earlier result stays on screen while the new one is loading.
getAnalysis_KeepsResult(w, tickerInput) ==
    IF tickerInput = ""
    THEN w
    ELSE Send([w EXCEPT !.analysisLoading = TRUE, !.analysisError = Null],
              [NewRequest("analyze", "dashboard") EXCEPT
                  !.ticker = toUpperCase(tickerInput),
                  !.prior = [results |-> w.analysisResults, news |-> w.analysisNews]])

\* The synchronous part of getAnalysis() / analyzeTicker(): both return on an empty
\* input, reset the four refs and send GET /api/v1/analyze?ticker=<upper-cased>.
getAnalysis(w, tickerInput) ==
    IF tickerInput = ""
    THEN w
    ELSE Send([w EXCEPT !.analysisLoading = TRUE, !.analysisResults = Null,
                        !.analysisNews = <<>>, !.analysisError = Null],
              [NewRequest("analyze", "dashboard") EXCEPT
                  !.ticker = toUpperCase(tickerInput),
                  !.prior = [results |-> w.analysisResults, news |-> w.analysisNews]])

\* The object both views build from data.analysis.
AnalysisResults(analysis) ==
    [k |-> "object", ticker |-> analysis.ticker,
     last_price |-> Or(analysis.last_price, Str("N/A")),
     summary |-> Or(analysis.summary, Str("No summary available."))]

\* Mutant: a catch block without the finally block.
AnalysisFailed_NoFinally(w, r, text, fallback) ==
    IF LiveNow(w, r)
    THEN [w EXCEPT !.analysisError = Str(OrText(text, fallback))]
    ELSE w

\* The end of both handlers: the catch block's assignment and the finally block.
AnalysisFailed(w, r, text, fallback) ==
    IF LiveNow(w, r)
    THEN [w EXCEPT !.analysisError = Str(OrText(text, fallback)), !.analysisLoading = FALSE]
    ELSE w

\* The success path of both handlers, from const analysis = data.analysis on.
AnalysisShown(w, r, data, fallback) ==
    IF data.analysis.k = "undefined"
    THEN AnalysisFailed(w, r, UndefinedAnalysis, fallback)
    ELSE IF LiveNow(w, r)
    THEN [w EXCEPT !.analysisResults = AnalysisResults(data.analysis),
                   !.analysisNews = Or(data.news_headlines, Arr(<<>>)).items,
                   !.analysisLoading = FALSE]
    ELSE w

\* DashboardView.getAnalysis after its awaits.  On an error status the body is
\* read as text; the Error thrown with the body's message inside the inner try is
\* caught by that try's own catch, which throws the 'HTTP error!' text instead.
getAnalysisResponse(w, r, resp) ==
    LET fallback == "Ticker not found or external data unavailable."
    IN  IF ~resp.net
        THEN AnalysisFailed(w, r, FailedToFetch, fallback)
        ELSE IF ~Ok(resp)
        THEN IF resp.body.kind = "html"
             THEN AnalysisFailed(w, r, RouteNotFound, fallback)
             ELSE AnalysisFailed(w, r,
                      "HTTP error! Status: " \o ToString(resp.status) \o ".", fallback)
        ELSE IF resp.body.kind # "json"
        THEN AnalysisFailed(w, r, JsonSyntaxError, fallback)
        ELSE AnalysisShown(w, r, resp.body, fallback)

\* SearchView.analyzeTicker after its awaits: the body is read as text and parsed
\* leniently (data is null when it is no JSON).
analyzeTickerResponse(w, r, resp) ==
    LET fallback == "Failed to fetch analysis data."
        data == IF resp.body.kind = "json" THEN resp.body ELSE JsonBody
    IN  IF ~resp.net
        THEN AnalysisFailed(w, r, FailedToFetch, fallback)
        ELSE IF ~Ok(resp) \/ resp.body.kind # "json"
        THEN AnalysisFailed(w, r,
                 ErrorMessage(Or(data.message, Str("HTTP " \o ToString(resp.status)))),
                 fallback)
        ELSE AnalysisShown(w, r, data, fallback)

analysisResponse(w, r, resp) ==
    IF r.view = "dashboard" THEN getAnalysisResponse(w, r, resp)
                          ELSE analyzeTickerResponse(w, r, resp)

\* The form is submitted (its button is disabled while the analysis is loading).
GetAnalysis(tickerInput) ==
    /\ ops < MaxOps
    /\ Component(route) = "dashboard"
    /\ view \in {"dashboard", "search"}
    /\ ~analysisLoading
    /\ Apply(getAnalysis(World, tickerInput))
    /\ ops' = ops + 1
    /\ event' = [op |-> "getAnalysis", tickerInput |-> tickerInput, before |-> World]
    /\ view' = ViewAfter
    /\ UNCHANGED callLog

AnalysisResponse(r, resp) ==
    /\ r.kind = "analyze"
    /\ Apply(analysisResponse(Settle(World, r), r, resp))
    /\ event' = [op |-> "analysisResponse", request |-> r, response |-> resp,
                 live |-> LiveNow(World, r), before |-> World]
    /\ view' = ViewAfter
    /\ UNCHANGED <<callLog, ops>>

\* predictFuturePrice(ticker) up to its await; ticker is analysisResults.ticker.
predictFuturePrice(w, ticker) ==
    LET w1 == [w EXCEPT !.predictLoading = TRUE, !.predictError = Null,
                        !.predictedData = Null, !.showPredictModal = TRUE]
    IN  IF ticker.k # "string"
        THEN [w1 EXCEPT !.predictError = Str(UndefinedTicker), !.predictLoading = FALSE]
        ELSE Send(w1, [NewRequest("predict", "dashboard") EXCEPT
                          !.ticker = toUpperCase(ticker.s),
                          !.prior = [results |-> w.predictedData, news |-> <<>>]])

\* predictFuturePrice after its awaits.
predictResponse(w, r, resp) ==
    LET data == IF resp.body.kind = "json" THEN resp.body ELSE JsonBody
        failed(text) ==
            IF LiveNow(w, r)
            THEN [w EXCEPT !.predictError = Str(OrText(text, "Prediction failed.")),
                           !.predictLoading = FALSE]
            ELSE w
    IN  IF ~resp.net
        THEN failed(FailedToFetch)
        ELSE IF ~Ok(resp) \/ resp.body.kind # "json"
        THEN failed(ErrorMessage(Or(data.message,
                        Str("Prediction failed. Status " \o ToString(resp.status)))))
        ELSE IF LiveNow(w, r)
        THEN [w EXCEPT !.predictedData = data, !.predictLoading = FALSE]
        ELSE w

\* The 'Predict Future Price' button of the analysis card (the card is rendered
\* when the analysis is neither loading nor in error and a result is there).
PredictFuturePrice ==
    /\ ops < MaxOps
    /\ Component(route) = "dashboard"
    /\ view = "search"
    /\ ~analysisLoading
    /\ ~Truthy(analysisError)
    /\ Truthy(analysisResults)
    /\ Apply(predictFuturePrice(World, analysisResults.ticker))
    /\ ops' = ops + 1
    /\ event' = [op |-> "predictFuturePrice", before |-> World]
    /\ view' = ViewAfter
    /\ UNCHANGED callLog

\* @click.self="showPredictModal = false" (backdrop) and @click="showPredictModal =
\* false" (Close button) of the prediction modal.  No bound is needed: the modal
\* opens again only by predictFuturePrice.
ClosePredictModal ==
    /\ Component(route) = "dashboard"
    /\ view = "search"
    /\ showPredictModal
    /\ Apply([World EXCEPT !.showPredictModal = FALSE])
    /\ event' = [op |-> "closePredictModal"]
    /\ UNCHANGED <<view, callLog, ops>>

PredictResponse(r, resp) ==
    /\ r.kind = "predict"
    /\ Apply(predictResponse(Settle(World, r), r, resp))
    /\ event' = [op |-> "predictResponse", request |-> r, response |-> resp,
                 live |-> LiveNow(World, r), before |-> World]
    /\ view' = ViewAfter
    /\ UNCHANGED <<callLog, ops>>

\* The close button of the notification (rendered while a message is shown):
\* @click="messageStore.clearFlashMessage()".  The pending timers stay.
DismissMessage ==
    /\ ops < MaxOps
    /\ flash_message # ""
    /\ SetMs(clearFlashMessage(Ms))
    /\ ops' = ops + 1
    /\ event' = [op |-> "dismissMessage"]
    /\ UNCHANGED <<authVars, callLog, route, view, isLoading, watchlist, watchlistLoading,
                   watchlistError, monteLoading, monteError, monteCarloData,
                   showMonteCarloModal, analysisResults, analysisNews, analysisLoading,
                   analysisError, predictedData, predictLoading, predictError,
                   showPredictModal, requests>>

AppTimerFires ==
    /\ timers # <<>>
    /\ SetMs(TimerCallback(Ms))
    /\ event' = [op |-> "timer", message |-> Head(timers).message,
                 shown |-> flash_message, own |-> (owner = 1)]
    /\ UNCHANGED <<authVars, callLog, appVars>>

\* The page is opened at any path, in a tab whose session storage is empty or holds
\* the session an earlier login left; the stores are set up, the component of the
\* path is mounted.
StartPaths == {"/", "/login", "/signup", "/dashboard"}
StartStorages ==
    {EmptyStorage}
    \cup {setUserData(setToken(useAuthStore(EmptyStorage), Str("t1")), u).sessionStorage :
             u \in LoginUsers}

PageLoad(storage, path) ==
    Mount([st |-> useAuthStore(storage), ms |-> NewMessageStore, route |-> path,
           isLoading |-> FALSE, watchlist |-> <<>>, watchlistLoading |-> FALSE,
           watchlistError |-> Null, monteLoading |-> FALSE, monteError |-> Null,
           monteCarloData |-> Null, showMonteCarloModal |-> FALSE,
           analysisResults |-> Null, analysisNews |-> <<>>, analysisLoading |-> FALSE,
           analysisError |-> Null, predictedData |-> Null, predictLoading |-> FALSE,
           predictError |-> Null, showPredictModal |-> FALSE, requests |-> {}],
          Component(path))

\* The variables hold the world w.
InitFrom(w) ==
    /\ token = w.st.token
    /\ logged_user = w.st.logged_user
    /\ sessionStorage = w.st.sessionStorage
    /\ flash_message = w.ms.flash_message
    /\ timers = w.ms.timers
    /\ owner = w.ms.owner
    /\ route = w.route
    /\ isLoading = w.isLoading
    /\ watchlist = w.watchlist
    /\ watchlistLoading = w.watchlistLoading
    /\ watchlistError = w.watchlistError
    /\ monteLoading = w.monteLoading
    /\ monteError = w.monteError
    /\ monteCarloData = w.monteCarloData
    /\ showMonteCarloModal = w.showMonteCarloModal
    /\ analysisResults = w.analysisResults
    /\ analysisNews = w.analysisNews
    /\ analysisLoading = w.analysisLoading
    /\ analysisError = w.analysisError
    /\ predictedData = w.predictedData
    /\ predictLoading = w.predictLoading
    /\ predictError = w.predictError
    /\ showPredictModal = w.showPredictModal
    /\ requests = w.requests

\* /dashboard is DashboardView, or the tabbed dashboard, which starts on its first tab.
AppInit ==
    /\ view \in {"dashboard", "search"}
    /\ \E storage \in StartStorages, path \in StartPaths : InitFrom(PageLoad(storage, path))
    /\ ops = 0
    /\ callLog = <<>>
    /\ event = NoEvent

AppNext ==
    \/ \E path \in {"/", "/login", "/signup", "/dashboard"} : NavLink(path)
    \/ \E tab \in Tabs : SelectTab(tab)
    \/ Login
    \/ Logout
    \/ \E ticker \in Tickers : AddToWatchlist(ticker)
    \/ \E i \in 1..Len(watchlist) : DeleteFromWatchlist(i)
    \/ \E form \in Forms : OnSubmit(form)
    \/ \E r \in requests : \E resp \in Responses(r.kind) :
          \/ LoginResponse(r, resp)
          \/ LogoutResponse(r, resp)
          \/ FetchWatchlistResponse(r, resp)
          \/ AddResponse(r, resp)
          \/ DeleteResponse(r, resp)
          \/ SignupResponse(r, resp)
    \/ AppTimerFires
    \/ DismissMessage

AppSpec == AppInit /\ [][AppNext]_vars

(***************************************************************************)
(* LoadSpec: the operations that own a loading flag (login, signup,        *)
(* watchlist fetch, analysis, prediction, Monte Carlo), in the three views. *)
(***************************************************************************)
LoadNext ==
    \/ \E path \in StartPaths : NavLink(path)
    \/ \E tab \in Tabs : SelectTab(tab)
    \/ Login
    \/ \E form \in Forms : OnSubmit(form)
    \/ \E tickerInput \in AnalysisInputs : GetAnalysis(tickerInput)
    \/ PredictFuturePrice
    \/ ClosePredictModal
    \/ PredictMonteCarlo
    \/ \E r \in requests : \E resp \in Responses(r.kind) :
          \/ LoginResponse(r, resp)
          \/ SignupResponse(r, resp)
          \/ FetchWatchlistResponse(r, resp)
          \/ AnalysisResponse(r, resp)
          \/ PredictResponse(r, resp)
          \/ MonteCarloResponse(r, resp)
    \/ AppTimerFires
    \/ DismissMessage

LoadSpec == AppInit /\ [][LoadNext]_vars

(***************************************************************************)
(* FrameSpec: every operation that has a request, without navigation by    *)
(* links and without the notification timers.                              *)
(***************************************************************************)
FrameNext ==
    \/ Login
    \/ \E tab \in Tabs : SelectTab(tab)
    \/ \E tickerInput \in AnalysisInputs : GetAnalysis(tickerInput)
    \/ PredictFuturePrice
    \/ ClosePredictModal
    \/ PredictMonteCarlo
    \/ \E ticker \in Tickers : AddToWatchlist(ticker)
    \/ \E i \in 1..Len(watchlist) : DeleteFromWatchlist(i)
    \/ \E r \in requests : \E resp \in Responses(r.kind) :
          \/ LoginResponse(r, resp)
          \/ FetchWatchlistResponse(r, resp)
          \/ AddResponse(r, resp)
          \/ DeleteResponse(r, resp)
          \/ AnalysisResponse(r, resp)
          \/ PredictResponse(r, resp)
          \/ MonteCarloResponse(r, resp)
    \/ DismissMessage

FrameSpec == AppInit /\ [][FrameNext]_vars

(***************************************************************************)
(* MonteSpec: the watchlist view under /dashboard, with its Monte Carlo     *)
(* simulation.                                                             *)
(***************************************************************************)
\* The page was opened at /dashboard (tabbed dashboard) and the tab 'Watchlist' has
\* been selected; the request of the search view, if it sent one, is still in flight.
MonteInit ==
    /\ view = "watchlist"
    /\ \E storage \in StartStorages :
          InitFrom(selectTab(PageLoad(storage, "/dashboard"), "watchlist"))
    /\ ops = 0
    /\ callLog = <<>>
    /\ event = NoEvent

MonteNext ==
    \/ \E path \in StartPaths : NavLink(path)
    \/ \E tab \in Tabs : SelectTab(tab)
    \/ \E i \in 1..Len(watchlist) : DeleteFromWatchlist(i)
    \/ PredictMonteCarlo
    \/ CloseMonteCarloModal
    \/ \E r \in requests : \E resp \in Responses(r.kind) :
          \/ FetchWatchlistResponse(r, resp)
          \/ DeleteResponse(r, resp)
          \/ MonteCarloResponse(r, resp)
    \/ AppTimerFires
    \/ DismissMessage

MonteSpec == MonteInit /\ [][MonteNext]_vars

(***************************************************************************)
(* Claims on the message store (MsgSpec).                                  *)
(***************************************************************************)
\* The last two calls made on the message store, when there are two.
LastTwoCalls == SubSeq(callLog, Len(callLog) - 1, Len(callLog))

\* C1: setFlashMessage("A"), then setFlashMessage("B") before A's timer fired, A # B,
\* both non-empty, no call after them: when A's timer fires the message reads "B",
\* before the callback and after it.
C1_SupersedingMessageSurvives ==
    (/\ event.op = "timer"
     /\ Len(callLog) >= 2
     /\ LastTwoCalls[1].op = "setFlashMessage"
     /\ LastTwoCalls[2].op = "setFlashMessage"
     /\ event.call = Len(callLog) - 1
     /\ LastTwoCalls[1].message # ""
     /\ LastTwoCalls[2].message # ""
     /\ LastTwoCalls[1].message # LastTwoCalls[2].message)
    => /\ event.shown = LastTwoCalls[2].message
       /\ flash_message = LastTwoCalls[2].message

\* C2: a timer callback blanks the message only if the message shown was set by the
\* call that scheduled this timer; after a newer call it leaves the message alone.
C2_TimerClearsOnlyOwnMessage ==
    (event.op = "timer" /\ event.shown # "" /\ flash_message = "")
    => event.own

(***************************************************************************)
(* Claims on the auth store (StoreSpec).                                   *)
(***************************************************************************)
Cleared == [getToken |-> Null, getUserData |-> Null, getUserId |-> Null,
            isAuthenticated |-> FALSE]

\* C3: when removeAuthUser returns, token, user and user id are absent,
\* isAuthenticated is false and both persisted keys are gone; it is one handler
\* step, so no state with only one half cleared is left behind by it.
C3_RemoveAuthUserClearsBoth ==
    event.op = "removeAuthUser"
    => /\ Observed(St) = Cleared
       /\ sessionStorage = EmptyStorage

C3_Witness ==
    /\ event.op = "removeAuthUser"
    /\ Truthy(event.before.getToken)
    /\ Truthy(event.before.getUserData)
    /\ token = Null

\* C4: isAuthenticated is true exactly when a token is present (a non-empty string);
\* after setToken with an empty or absent value it is false.
C4_AuthenticatedIffTokenPresent ==
    isAuthenticated(St) <=> Truthy(token)

\* C5: a page reload gives back the session that was there: the same token and user
\* when they were present, none when they were absent or empty, and the same
\* isAuthenticated.
C5_ReloadPreservesSession ==
    event.op = "reload"
    => /\ Truthy(event.before.getToken) => getToken(St) = event.before.getToken
       /\ ~Truthy(event.before.getToken) => ~Truthy(getToken(St))
       /\ Truthy(event.before.getUserData) => getUserData(St) = event.before.getUserData
       /\ ~Truthy(event.before.getUserData) => ~Truthy(getUserData(St))
       /\ Truthy(event.before.getUserId) => getUserId(St) = event.before.getUserId
       /\ ~Truthy(event.before.getUserId) => ~Truthy(getUserId(St))
       /\ isAuthenticated(St) = event.before.isAuthenticated

(***************************************************************************)
(* Claims on the application (AppSpec).                                    *)
(***************************************************************************)
\* The response is a success response with a JSON body.
Success(resp) == resp.net /\ Ok(resp) /\ resp.body.kind = "json"
\* The response is a failure: a transport failure or a status outside 2xx.
Failure(resp) == ~resp.net \/ ~Ok(resp)
Is401(resp) == resp.net /\ resp.status = 401

\* C6: after the login handler has run on a success response that carries a token
\* and a user record, isAuthenticated is true and getUserId() is the id of that
\* user, whatever number or string the id is.
C6_LoginEstablishesSession ==
    (/\ event.op = "loginResponse"
     /\ Success(event.response)
     /\ Truthy(event.response.body.token)
     /\ Truthy(event.response.body.user))
    => /\ isAuthenticated(St)
       /\ getUserId(St) = event.response.body.user.id

\* C7: a 401 response to any watchlist call (has-watchlist check, list fetch, add,
\* delete) of any view leaves the session cleared and the route at /login.
C7_Every401ClearsSession ==
    (/\ event.op \in {"fetchWatchlistResponse", "addResponse", "deleteResponse"}
     /\ Is401(event.response))
    => /\ token = Null
       /\ logged_user = Null
       /\ route = "/login"

\* What the 'session expired' handling leaves behind.
SessionExpiredIn(w) ==
    /\ w.ms.flash_message = "Session expired. Please log in again."
    /\ getToken(w.st) = Null
    /\ getUserData(w.st) = Null
    /\ w.st.sessionStorage = EmptyStorage
    /\ w.route = "/login"

\* C8 as stated: on every 401 received through axios, in any session state, the
\* interceptor sets the notification, clears the session and goes to /login, and
\* rejects.
C8_InterceptorExpiresAnySession ==
    (event.op = "signupResponse" /\ Is401(event.response))
    => /\ SessionExpiredIn(event.intercepted.w)
       /\ event.intercepted.settled = "rejected"

\* C8, amended: on a 401 received through axios while isAuthenticated is true the
\* interceptor sets the notification, clears the session and goes to /login; while
\* isAuthenticated is false it changes nothing.  In both cases it rejects, and the
\* caller's error handling runs after it: the caller's message replaces the
\* notification and the session stays as the interceptor left it.
C8_InterceptorExpiresAuthenticatedSession ==
    (event.op = "signupResponse" /\ Is401(event.response))
    => /\ isAuthenticated(event.before.st) => SessionExpiredIn(event.intercepted.w)
       /\ ~isAuthenticated(event.before.st) => event.intercepted.w = event.before
       /\ event.intercepted.settled = "rejected"
       /\ flash_message = "Unauthorized"
       /\ St = event.intercepted.w.st
       /\ route = event.intercepted.w.route

C8_Witness ==
    /\ event.op = "signupResponse"
    /\ Is401(event.response)
    /\ isAuthenticated(event.before.st)
    /\ event.before.route = "/signup"
    /\ token = Null
    /\ route = "/login"
    /\ flash_message = "Unauthorized"

\* C9: when the DELETE request fails and no other watchlist operation has run since
\* the delete was triggered, the watchlist of the view that triggered it (still
\* shown) is, after the handler, the list from before the delete: the same entries
\* in the same order.
C9_FailedDeleteRestoresList ==
    (/\ event.op = "deleteResponse"
     /\ Failure(event.response)
     /\ event.request.clean
     /\ event.live)
    => watchlist = event.request.before

C9_Witness ==
    /\ event.op = "deleteResponse"
    /\ Failure(event.response)
    /\ event.request.clean
    /\ event.live
    /\ view = "dashboard"
    /\ Len(watchlist) = 2
    /\ watchlist[1].id = event.request.itemId

\* The ticker, upper-cased, is among the tickers of the cached list.
Cached(list, ticker) == toUpperCase(ticker) \in {list[i].ticker : i \in 1..Len(list)}
RequestIds(w) == {q.id : q \in w.requests}

\* C10 as stated: addToWatchlist(ticker) with the ticker already cached sends no
\* request and changes no client state: watchlist, notification, session and route
\* keep their values.
C10_AddOfCachedTickerIsNoOp ==
    (event.op = "addToWatchlist" /\ Cached(event.before.watchlist, event.ticker))
    => /\ RequestIds(World) = RequestIds(event.before)
       /\ watchlist = event.before.watchlist
       /\ flash_message = event.before.ms.flash_message
       /\ St = event.before.st
       /\ route = event.before.route

\* C10, amended: with the ticker already cached, addToWatchlist(ticker) of the
\* dashboard sends no request and changes nothing; that of the search view, a user
\* id being present, sends no request and keeps watchlist, session and route, and
\* sets the notification '<ticker> already in watchlist.'.
C10_AddOfCachedTickerSendsNothing ==
    (/\ event.op = "addToWatchlist"
     /\ Cached(event.before.watchlist, event.ticker)
     /\ view = "search" => Truthy(getUserId(event.before.st)))
    => /\ RequestIds(World) = RequestIds(event.before)
       /\ watchlist = event.before.watchlist
       /\ St = event.before.st
       /\ route = event.before.route
       /\ view = "dashboard" => Ms = event.before.ms
       /\ view = "search" => flash_message = event.ticker \o " already in watchlist."

C10_Witness ==
    /\ event.op = "addToWatchlist"
    /\ event.ticker = "tcs"
    /\ Cached(event.before.watchlist, event.ticker)
    /\ view = "search"
    /\ Truthy(getUserId(event.before.st))
    /\ flash_message = "tcs already in watchlist."
    /\ requests = {}

(***************************************************************************)
(* Claims on the watchlist view (MonteSpec).                               *)
(***************************************************************************)
\* C11: in the watchlist view a Monte Carlo request is sent only for a list that is
\* not empty: a call of predictMonteCarlo() on an empty list changes nothing, the
\* requests in flight carry the tickers of a list, and the button is rendered only
\* while the list is not empty.
C11_NoMonteCarloOnEmptyList ==
    /\ (event.op = "predictMonteCarlo" /\ Len(event.before.watchlist) = 0)
       => /\ World = event.before
          /\ ~event.button
    /\ \A r \in requests : r.kind = "montecarlo" => r.stocks # <<>>
    /\ MonteCarloButton(World) => watchlist # <<>>

\* predictMonteCarlo() called on a list that a successful delete has emptied.
C11_Witness ==
    /\ event.op = "predictMonteCarlo"
    /\ event.before.watchlist = <<>>
    /\ ~event.before.watchlistLoading
    /\ flash_message = "Removed TCS from watchlist"
    /\ requests = {}

(***************************************************************************)
(* Claims on the signup form (AppSpec).                                    *)
(***************************************************************************)
\* The checks the form has to pass.
ValidForm(form) ==
    /\ form.username # ""
    /\ form.email # <<>>
    /\ form.password # ""
    /\ form.confirm_password # ""
    /\ form.password = form.confirm_password
    /\ Len(form.password) >= 8
    /\ emailRegexTest(form.email)

\* C12: onSubmit sends the signup request only for a form that passes all checks
\* (four fields non-empty, passwords equal, at least 8 characters, email of the
\* pattern); for a form that fails one it sends nothing and sets a notification;
\* after a success response a notification is set and the route is /login.
C12_SignupSentOnlyForValidForm ==
    /\ event.op = "onSubmit"
       => /\ event.sent => ValidForm(event.form)
          /\ ~ValidForm(event.form) => (~event.sent /\ flash_message # "")
    /\ (event.op = "signupResponse" /\ event.response.net /\ Ok(event.response))
       => /\ flash_message # ""
          /\ route = "/login"

\* A valid form was sent and the backend accepted it.
C12_Witness ==
    /\ event.op = "signupResponse"
    /\ Ok(event.response)
    /\ event.before.route = "/signup"
    /\ flash_message = "User created"
    /\ route = "/login"

(***************************************************************************)
(* Further claims on the auth store (StoreSpec).                           *)
(***************************************************************************)
\* C13: removeAuthUser() called a second time, right after a first call, leaves the
\* store as the first call left it: token, user, the two persisted entries and
\* isAuthenticated.
C13_RemoveAuthUserIdempotent ==
    (event.op = "removeAuthUser" /\ event.after = "removeAuthUser")
    => /\ St = event.store
       /\ Observed(St) = event.before

\* Two calls in a row, the first on a store that held a token and a user.
C13_Witness ==
    /\ event.op = "removeAuthUser"
    /\ event.after = "removeAuthUser"
    /\ Truthy(event.first.getToken)
    /\ Truthy(event.first.getUserData)
    /\ St = event.store
    /\ ~isAuthenticated(St)

(***************************************************************************)
(* Claims on the session in the application (AppSpec).                     *)
(***************************************************************************)
\* The token is present exactly when the user record is.
SessionConsistent == Truthy(getToken(St)) <=> Truthy(getUserData(St))

\* The handler that has just run was a login answered with a token and a user, and
\* it has stored both.
LoginStored ==
    /\ event'.op = "loginResponse"
    /\ Success(event'.response)
    /\ Truthy(event'.response.body.token)
    /\ Truthy(event'.response.body.user)
    /\ token' = event'.response.body.token
    /\ logged_user' = event'.response.body.user

\* The handler that has just run was the end of a logout, or the 401 handling of
\* a view or of the interceptor, and it has cleared token and user.
SessionCleared ==
    /\ \/ event'.op = "logoutResponse"
       \/ event'.op \in {"fetchWatchlistResponse", "signupResponse"} /\ Is401(event'.response)
    /\ token' = Null
    /\ logged_user' = Null

\* C14: between handlers the token is present iff the user record is, and a handler
\* changes the session only as a successful login (both set) or as a logout or
\* expiry (both cleared); a failed login changes nothing of it.
C14_SessionSetAndClearedTogether ==
    /\ []SessionConsistent
    /\ [][St' # St => (LoginStored \/ SessionCleared)]_vars

\* A failed login on top of a session: token and user are still there.
C14_Witness ==
    /\ event.op = "loginResponse"
    /\ ~Success(event.response)
    /\ Truthy(getToken(St))
    /\ Truthy(getUserData(St))

\* C15: when the POST /logout request has settled, whatever its outcome, the session
\* is cleared in memory and in storage, the notification reads "You have been
\* logged out." and the route is /login.
C15_LogoutClearsWhateverTheOutcome ==
    event.op = "logoutResponse"
    => /\ Observed(St) = Cleared
       /\ sessionStorage = EmptyStorage
       /\ flash_message = "You have been logged out."
       /\ route = "/login"

\* The logout request of a logged-in user failed in transport.
C15_Witness ==
    /\ event.op = "logoutResponse"
    /\ ~event.response.net
    /\ Truthy(event.request.session)
    /\ token = Null
    /\ route = "/login"

(***************************************************************************)
(* Further claims on the message store (MsgSpec, MsgLiveSpec).             *)
(***************************************************************************)
\* The n-th call on the store was setFlashMessage with a text, and no
\* setFlashMessage call has followed it.
LastSetCall(n) ==
    /\ n \in SetCalls(callLog)
    /\ callLog[n].message # ""
    /\ \A j \in SetCalls(callLog) : j <= n

\* One message at a time: a call replaces what was shown, and a timer leaves the
\* message as it was or blanks it; no earlier message comes back.
OneMessage ==
    /\ event.op = "setFlashMessage" => flash_message = event.message
    /\ event.op = "timer" => flash_message \in {event.shown, ""}

\* C16: when the timer of a setFlashMessage(m) call, m not empty, fires and no
\* setFlashMessage call has followed that call, the message is empty afterwards,
\* with or without a clearFlashMessage in between; that timer does fire, so the
\* message is eventually empty unless a later call sets a new one; the store holds
\* one message, never a queue.
C16_MessageEventuallyCleared ==
    /\ []((event.op = "timer" /\ LastSetCall(event.call)) => flash_message = "")
    /\ []OneMessage
    /\ \A n \in 1..MaxCalls :
          LastSetCall(n) ~> (flash_message = "" \/ ~LastSetCall(n))

\* The timer of the last call has blanked the message that call had set.
C16_Witness ==
    /\ event.op = "timer"
    /\ LastSetCall(event.call)
    /\ event.shown = event.message
    /\ flash_message = ""
    /\ \E i \in 1..Len(callLog) : callLog[i].op = "clearFlashMessage"

\* clearFlashMessage() has been called and no setFlashMessage call has followed it.
ClearedSince ==
    \E c \in 1..Len(callLog) :
        /\ callLog[c].op = "clearFlashMessage"
        /\ \A j \in SetCalls(callLog) : j < c

\* C17: right after clearFlashMessage() the message is empty, however many timers
\* are pending, and it stays empty when those timers fire, as long as no
\* setFlashMessage call follows the clear.
C17_ClearBlanksAtOnce ==
    /\ event.op = "clearFlashMessage" => getFlashMessage(Ms) = ""
    /\ ClearedSince => getFlashMessage(Ms) = ""

\* A timer scheduled before the clear has fired after it, others still pending.
C17_Witness ==
    /\ event.op = "timer"
    /\ event.message # ""
    /\ ClearedSince
    /\ timers # <<>>
    /\ flash_message = ""

(***************************************************************************)
(* Claims on the watchlist operations (AppSpec).                           *)
(***************************************************************************)
\* The list without the entries of that id, the others in their order.
Without(list, id) == SelectSeq(list, LAMBDA item : item.id # id)

\* C18 as stated: in every view that offers the delete, right after
\* deleteFromWatchlist(id, ticker) is invoked, the response still pending, the
\* list has no entry of that id and the other entries are in their order.
C18_DeleteIsOptimisticInEveryView ==
    event.op = "deleteFromWatchlist"
    => watchlist = Without(event.before.watchlist, event.itemId)

\* C18, amended: in the dashboard the entry is gone from the list as soon as
\* deleteFromWatchlist is invoked, the others in their order; in the watchlist view
\* the list is unchanged while the request is pending, and the entry is removed
\* when the success response arrives.
C18_DeleteIsOptimisticInDashboard ==
    /\ (event.op = "deleteFromWatchlist" /\ view = "dashboard")
       => watchlist = Without(event.before.watchlist, event.itemId)
    /\ (event.op = "deleteFromWatchlist" /\ view = "watchlist")
       => watchlist = event.before.watchlist
    /\ (/\ event.op = "deleteResponse"
        /\ view = "watchlist"
        /\ event.live
        /\ event.response.net /\ Ok(event.response))
       => \A i \in 1..Len(watchlist) : watchlist[i].id # event.request.itemId

\* The first of two entries is deleted in the dashboard, the request is pending.
C18_Witness ==
    /\ event.op = "deleteFromWatchlist"
    /\ view = "dashboard"
    /\ Len(event.before.watchlist) = 2
    /\ event.before.watchlist[1].id = event.itemId
    /\ watchlist = <<event.before.watchlist[2]>>
    /\ \E r \in requests : r.kind = "delete" /\ r.itemId = event.itemId

\* The requests of that kind sent by the step.
Sent(kind) ==
    {r \in requests' : r.kind = kind /\ \A q \in requests : q.id # r.id \/ q.kind # kind}

\* The step is the arrival of a has_watchlist response of status 2xx with a JSON body.
HasWatchlistArrives ==
    /\ event'.op = "fetchWatchlistResponse"
    /\ event'.request.kind = "has_watchlist"
    /\ Success(event'.response)

\* The step's has_watchlist response says that the user has records.
HasRecords == Truthy(event'.response.body.has_watchlist_records)

\* When the flag is false: list empty (in the instance that asked, when it is the
\* one shown), loading reset, no second request.
ShortCircuit ==
    /\ Sent("watchlist") = {}
    /\ event'.live => (watchlist' = <<>> /\ ~watchlistLoading')

\* C19 as stated: in every view, GET /api/v1/watchlist/{userId} is issued only
\* after the response to GET /api/v1/has_watchlist/{userId} has been received with
\* has_watchlist_records true; when the flag is false the list becomes empty, the
\* loading flag is reset and no second request is issued.
C19_EveryLoadIsTwoStep ==
    [][/\ Sent("watchlist") # {} => (HasWatchlistArrives /\ HasRecords)
       /\ (HasWatchlistArrives /\ ~HasRecords) => ShortCircuit]_vars

\* C19, amended: in the dashboard view the load is the two-step protocol; the
\* search view and the watchlist view never ask has_watchlist, they issue GET
\* /api/v1/watchlist/{userId} directly.
C19_DashboardLoadIsTwoStep ==
    /\ [](\A r \in requests : r.kind = "has_watchlist" => view = "dashboard")
    /\ [][/\ (view = "dashboard" /\ Sent("watchlist") # {})
             => (HasWatchlistArrives /\ HasRecords)
          /\ (HasWatchlistArrives /\ ~HasRecords) => ShortCircuit
          /\ (view # "dashboard" /\ Sent("has_watchlist") \cup Sent("watchlist") # {})
             => (Sent("has_watchlist") = {} /\ ~HasWatchlistArrives)]_vars

\* The dashboard has received 'has records' and the request for the list is in flight.
C19_Witness ==
    /\ view = "dashboard"
    /\ event.op = "fetchWatchlistResponse"
    /\ event.request.kind = "has_watchlist"
    /\ Success(event.response)
    /\ Truthy(event.response.body.has_watchlist_records)
    /\ \E r \in requests : r.kind = "watchlist" /\ r.userId = event.request.userId

\* The decimal numerals among the user-id header values of this model.
NumericHeader(v) == v.k = "string" /\ v.s \in {"0", "7"}

\* The user id a handler reads is a number, or a string that is a decimal numeral.
NumericUserId(id) == id.k = "number" \/ (id.k = "string" /\ id.s \in {"0", "7"})

\* C20: every POST /api/v1/watchlist/add request carries a numeric user id in
\* its user-id header; when addToWatchlist is called for a ticker that is not in
\* the list while the user id is absent or not numeric, no request is sent and a
\* notification is set.
C20_AddCarriesNumericUserId ==
    /\ \A r \in requests : r.kind = "add" => NumericHeader(r.userId)
    /\ (/\ event.op = "addToWatchlist"
        /\ event.ticker # ""
        /\ ~isTickerInWatchlist(event.before.watchlist, event.ticker)
        /\ ~NumericUserId(getUserId(event.before.st)))
       => /\ \A r \in requests : r.kind # "add"
          /\ flash_message # ""
          /\ Len(timers) = Len(event.before.ms.timers) + 1

(***************************************************************************)
(* Claims on the error handling of the remote calls.                       *)
(***************************************************************************)
\* The backend answers with an error status and a JSON body that has a message
\* or an error field.
BackendError(resp) ==
    /\ resp.net /\ ~Ok(resp) /\ resp.body.kind = "json"
    /\ Truthy(resp.body.message) \/ Truthy(resp.body.error)

\* The text the backend provided.
BackendText(resp) == ToStringJS(Or(resp.body.message, resp.body.error))

\* C21: when the backend answers a remote call with an error status and a JSON
\* body containing a message (or error) field, the text surfaced to the user, as
\* notification or as the view's error, is exactly that text (the 401 of a
\* watchlist fetch, which has its own handling, set aside).
C21_BackendTextSurfacedVerbatim ==
    /\ (event.op = "analysisResponse" /\ event.live /\ BackendError(event.response))
       => analysisError = Str(BackendText(event.response))
    /\ (event.op = "predictResponse" /\ event.live /\ BackendError(event.response))
       => predictError = Str(BackendText(event.response))
    /\ (event.op = "monteCarloResponse" /\ event.live /\ BackendError(event.response))
       => monteError = Str(BackendText(event.response))
    /\ (event.op \in {"loginResponse", "signupResponse"} /\ BackendError(event.response))
       => flash_message = BackendText(event.response)
    /\ (/\ event.op = "fetchWatchlistResponse" /\ event.live
        /\ BackendError(event.response) /\ ~Is401(event.response))
       => watchlistError = Str(BackendText(event.response))

\* C22: when the backend answers with a body that is not JSON, the raw message of
\* the JSON parse exception is never what the user sees, neither as notification
\* nor as the error of a view.
C22_ParseExceptionNeverShown ==
    /\ flash_message # JsonSyntaxError
    /\ watchlistError # Str(JsonSyntaxError)
    /\ analysisError # Str(JsonSyntaxError)
    /\ predictError # Str(JsonSyntaxError)
    /\ monteError # Str(JsonSyntaxError)

\* The step is the handler of a request that never completed.
TransportFailure(op) == event'.op = op /\ ~event'.response.net

\* The step leaves the session, the route and the results of the views alone.
KeepsSessionAndResults ==
    /\ St' = St
    /\ route' = route
    /\ analysisResults' = analysisResults /\ analysisNews' = analysisNews
    /\ predictedData' = predictedData
    /\ monteCarloData' = monteCarloData

\* C23 as stated: after the handler of a transport failure, the session and the
\* view's data (analysis result and news, cached watchlist, prediction result,
\* Monte Carlo result) equal their values from before the operation was triggered.
C23_TransportFailureRestoresData ==
    [][/\ (TransportFailure("analysisResponse") /\ event'.live)
          => /\ analysisResults' = event'.request.prior.results
             /\ analysisNews' = event'.request.prior.news
       /\ (TransportFailure("predictResponse") /\ event'.live)
          => predictedData' = event'.request.prior.results
       /\ (TransportFailure("monteCarloResponse") /\ event'.live)
          => monteCarloData' = event'.request.prior.results
       /\ (\E op \in {"loginResponse", "fetchWatchlistResponse", "addResponse"} :
              TransportFailure(op))
          => (St' = St /\ watchlist' = watchlist)]_vars

\* C23, amended: the handler of a transport failure leaves the session, the
\* cached watchlist and the results as it finds them (a dashboard delete puts
\* back the list from before the delete); the operation's own result was emptied
\* when the operation was triggered, so a failed analysis shows no result.
C23_TransportFailureChangesNoData ==
    [][/\ (\E op \in {"loginResponse", "fetchWatchlistResponse", "addResponse",
                      "analysisResponse", "predictResponse", "monteCarloResponse"} :
              TransportFailure(op))
          => (KeepsSessionAndResults /\ watchlist' = watchlist)
       /\ TransportFailure("deleteResponse")
          => /\ KeepsSessionAndResults
             /\ watchlist' = IF view = "dashboard" /\ event'.live
                             THEN event'.request.originalWatchlist
                             ELSE watchlist
       /\ (TransportFailure("analysisResponse") /\ event'.live)
          => /\ analysisResults' = Null /\ analysisNews' = <<>>
             /\ analysisError' = Str(FailedToFetch) /\ ~analysisLoading'
       /\ (TransportFailure("predictResponse") /\ event'.live)
          => (predictError' = Str(FailedToFetch) /\ ~predictLoading')
       /\ (TransportFailure("monteCarloResponse") /\ event'.live)
          => (monteError' = Str(FailedToFetch) /\ ~monteLoading')]_vars

\* An analysis was shown, the next one failed at transport level: the view shows
\* the error and no result.
C23_Witness ==
    /\ event.op = "analysisResponse"
    /\ ~event.response.net
    /\ event.live
    /\ Truthy(event.request.prior.results)
    /\ analysisResults = Null
    /\ analysisError = Str(FailedToFetch)
    /\ ~analysisLoading

\* The handler of the step has ended: a has_watchlist response that says 'has
\* records' is followed by the second request of the same fetchWatchlist call.
FetchEnded ==
    ~(/\ event.request.kind = "has_watchlist"
      /\ Success(event.response)
      /\ Truthy(event.response.body.has_watchlist_records))

\* A response that is no success: error status, body that is no JSON, or no
\* response at all.
NoSuccess(resp) == ~resp.net \/ ~Ok(resp) \/ resp.body.kind # "json"

\* C24: for every operation with a loading flag and every outcome of its request,
\* the error is caught in the handler (it ends with the error shown, as error of
\* the view or as notification) and the loading flag of the instance that asked
\* is false once the handler has finished.
C24_LoadingFlagResetOnEveryOutcome ==
    /\ (event.op \in {"loginResponse", "signupResponse"} /\ event.live)
       => /\ ~isLoading
          /\ NoSuccess(event.response) => flash_message # ""
    /\ (/\ event.op = "fetchWatchlistResponse" /\ event.live
        /\ view \in {"dashboard", "watchlist"} /\ FetchEnded)
       => /\ ~watchlistLoading
          /\ (NoSuccess(event.response) /\ ~Is401(event.response))
             => Truthy(watchlistError)
    /\ (event.op = "analysisResponse" /\ event.live)
       => /\ ~analysisLoading
          /\ NoSuccess(event.response) => Truthy(analysisError)
    /\ (event.op = "predictResponse" /\ event.live)
       => /\ ~predictLoading
          /\ NoSuccess(event.response) => Truthy(predictError)
    /\ (event.op = "monteCarloResponse" /\ event.live)
       => /\ ~monteLoading
          /\ NoSuccess(event.response) => Truthy(monteError)

\* An analysis answered 200 with a body that has no analysis member: the
\* TypeError is caught, shown, and the flag reset.
C24_Witness ==
    /\ event.op = "analysisResponse"
    /\ event.live
    /\ event.response = Response(200, JsonBody)
    /\ analysisError = Str(UndefinedAnalysis)
    /\ ~analysisLoading
    /\ analysisResults = Null

(***************************************************************************)
(* Claims on overlapping requests.                                         *)
(***************************************************************************)
\* The requests of that kind in flight whose instance is the one shown.
InFlight(kind) == {r \in requests : r.kind = kind /\ LiveNow(World, r)}

\* What the response alone produces: the handler run on the view as the trigger
\* of the request left it (result and error null).
MonteCarloAlone ==
    monteCarloResponse([event.before EXCEPT !.monteCarloData = Null, !.monteError = Null,
                                            !.requests = {}],
                       event.request, event.response)

\* C25: when overlapping requests of the same kind have all resolved, the view
\* state of the operation (result and error together) is exactly what the response
\* that resolved last would have produced alone.
C25_LastResponseWins ==
    (/\ event.op = "monteCarloResponse"
     /\ event.live
     /\ InFlight("montecarlo") = {})
    => /\ monteCarloData = MonteCarloAlone.monteCarloData
       /\ monteError = MonteCarloAlone.monteError

\* C29: each loading flag is true whenever at least one request of its operation,
\* sent by the view shown, is still in flight.
C29_LoadingFlagReflectsInFlightWork ==
    /\ InFlight("montecarlo") # {} => monteLoading
    /\ InFlight("predict") # {} => predictLoading
    /\ (view \in {"dashboard", "watchlist"}
        /\ InFlight("has_watchlist") \cup InFlight("watchlist") # {}) => watchlistLoading

\* The add requests in flight for that ticker.
AddsInFlight(ticker) ==
    {r \in requests : r.kind = "add" /\ toUpperCase(r.ticker) = ticker}

\* C26: duplicate adds are prevented under any interleaving: at most one POST
\* /api/v1/watchlist/add per ticker is sent, also when add is triggered again while
\* the earlier add request is in flight.
C26_AtMostOneAddPerTicker ==
    \A ticker \in {toUpperCase(t) : t \in Tickers} : Cardinality(AddsInFlight(ticker)) <= 1

\* C27: in the dashboard, when the last of several overlapping deletes settles (no
\* other watchlist request in flight), the entry of a delete that succeeded is not
\* in the list and the entry of a delete that failed is.
C27_OverlappingDeletesSettle ==
    (/\ event.op = "deleteResponse"
     /\ view = "dashboard"
     /\ event.live
     /\ \A r \in requests : r.kind \notin {"delete", "add", "has_watchlist", "watchlist"})
    => LET listed == \E i \in 1..Len(watchlist) : watchlist[i].id = event.request.itemId
       IN  IF event.response.net /\ Ok(event.response) THEN ~listed ELSE listed

\* The request was sent under another session than the current one: under another
\* token, or for another user.
SentUnderOtherSession(r) ==
    \/ r.session # getToken(St)
    \/ r.kind = "has_watchlist" /\ r.userId # getUserId(St)

\* C28: a 401 answer to a watchlist request that was sent under another session than
\* the current one (an earlier session, or none) leaves the current session in place.
C28_StaleUnauthorizedKeepsSession ==
    [][(/\ event'.op \in {"fetchWatchlistResponse", "addResponse", "deleteResponse"}
        /\ Is401(event'.response)
        /\ isAuthenticated(St)
        /\ SentUnderOtherSession(event'.request))
       => /\ token' = token
          /\ logged_user' = logged_user
          /\ sessionStorage' = sessionStorage]_vars

\* C30: in every view, a watchlist fetch that fails (error status, unparseable body,
\* transport failure) and leaves the view in place leaves the cached list as it was.
C30_FailedFetchKeepsCachedList ==
    [][(/\ event'.op = "fetchWatchlistResponse"
        /\ event'.live
        /\ NoSuccess(event'.response)
        /\ route' = route)
       => watchlist' = watchlist]_vars
====
